---- MODULE Spec2Model ----
(***************************************************************************)
(* Model of the ESG report pipeline of esg_tool: the agents, the           *)
(* ESGWorkflow orchestrator that runs them over one AgentContext, and the  *)
(* ArchiveRepository that stores the finished packages.                    *)
(*                                                                         *)
(* Python str values that the code searches (industry, description) are    *)
(* sequences of characters; every other text is an atomic string or a      *)
(* sequence of parts for an f-string.  Chinese literals are written in     *)
(* pinyin, the original is given in the comment next to them.  Scores are  *)
(* in tenths (4.5 is 45).  Optional values are None (the empty tuple) or   *)
(* Some(v) (a one-element tuple).                                          *)
(***************************************************************************)
EXTENDS Integers, Sequences, FiniteSets, TLC

VARIABLES
    agents,       \* ESGWorkflow.agents: the configured list of agent names
    last_output,  \* Agent._last_output of the agent at each position
    args,         \* per run: the arguments execute was called with
    ctx,          \* per run: the AgentContext of that execute call
    pc,           \* per run: "idle", "running", "returned" or "raised"
    step,         \* per run: how many agents of the list have been called
    log,          \* per run: the names of the agents called, in call order
    result,       \* per run: the value execute returned
    error,        \* per run: the exception execute raised
    archive,      \* ArchiveRepository: package_id -> text of package.json
    today,        \* what date.today() returns
    topics,       \* argument of a direct _build_matrix call
    matrix,       \* what that call returned
    trace,        \* what the last debug_trace call returned
    config_file,  \* storage/ai_settings.json: missing, or its text
    settings_data, \* what the last load_ai_settings call returned
    flashes       \* the categories the last settings POST flashed

vars == <<agents, last_output, args, ctx, pc, step, log, result, error,
          archive, today, topics, matrix, trace, config_file, settings_data, flashes>>

----------------------------------------------------------------------------
(* Bounds *)

MaxIndustryLen == 2
MaxTopics == 2
MaxSteps == 2
MaxCalls == 2
MaxReviews == 2
MaxDocuments == 2
MaxWords == 2
MaxStakeholders == 2
MaxModels == 2

----------------------------------------------------------------------------
(* Optional values and Python helpers *)

None == <<>>
Some(v) == <<v>>
IsNone(o) == o = <<>>
The(o) == o[1]

\* Python "sub in s" on str
Contains(s, sub) ==
    \E i \in 0..(Len(s) - Len(sub)) : SubSeq(s, i + 1, i + Len(sub)) = sub

\* str.lower(), character by character (or word by word where a text is
\* kept as a sequence of words)
LowerChar(c) ==
    CASE c = "A" -> "a" [] c = "B" -> "b"
      [] c \in {"EMPLOYEE", "Employee"} -> "employee"
      [] c = "STAFF" -> "staff"
      [] c \in {"CLIENT", "Client"} -> "client"
      [] c = "User" -> "user"
      [] OTHER -> c
Lower(s) == [i \in DOMAIN s |-> LowerChar(s[i])]

RECURSIVE SeqsUpTo(_, _)
SeqsUpTo(S, n) ==
    IF n = 0 THEN {<<>>}
    ELSE LET shorter == SeqsUpTo(S, n - 1)
         IN shorter \cup {Append(s, x) : s \in {t \in shorter : Len(t) = n - 1}, x \in S}

\* dict[key] = value on a dict kept as a sequence of <<key, value>> in
\* insertion order: an existing key keeps its place and gets the new value
DictSet(d, k, v) ==
    IF \E i \in DOMAIN d : d[i][1] = k
    THEN [i \in DOMAIN d |-> IF d[i][1] = k THEN <<k, v>> ELSE d[i]]
    ELSE Append(d, <<k, v>>)

\* a variant that takes the update for the whole mapping
UpdateReplace(c, out) == out

\* dict.update / AgentContext.update on a mapping kept as a function
Update(c, out) ==
    [k \in (DOMAIN c) \cup (DOMAIN out) |-> IF k \in DOMAIN out THEN out[k] ELSE c[k]]

EmptyDict == [k \in {} |-> None]

KeyError(k) == [type |-> "KeyError", key |-> k]
TypeError == [type |-> "TypeError", key |-> "NoneType is not iterable"]
Raise(e) == [raised |-> TRUE, error |-> e, output |-> EmptyDict]
Return(out) == [raised |-> FALSE, error |-> None, output |-> out]

----------------------------------------------------------------------------
(* Characters and the literals the agents search for *)

ZhiZao == <<"zhi", "zao">>       \* "制造" manufacturing
GongYe == <<"gong", "ye">>       \* "工业" industry
JinRong == <<"jin", "rong">>     \* "金融" finance

Chars == {"zhi", "zao", "gong", "ye", "jin", "rong"}

----------------------------------------------------------------------------
(* services/guidelines.py *)

SSE_GUIDELINES(k) ==
    CASE k = "governance_structure" ->
           [framework |-> "SSE", code |-> "2.1", description |-> "Board responsibilities for sustainability oversight"]
      [] k = "stakeholder_engagement" ->
           [framework |-> "SSE", code |-> "4.2", description |-> "Mechanisms for engagement with key stakeholder groups"]
      [] k = "climate_goals" ->
           [framework |-> "SSE", code |-> "5.3", description |-> "Disclosure of climate transition plans and targets"]
      [] k = "supply_chain" ->
           [framework |-> "SSE", code |-> "6.1", description |-> "Supply chain environmental and social risk management"]
      [] k = "community_investment" ->
           [framework |-> "SSE", code |-> "7.4", description |-> "Community engagement and public welfare initiatives"]

\* the keys of SSE_GUIDELINES in definition order (dict.values() order)
SSE_KEYS == <<"governance_structure", "stakeholder_engagement", "climate_goals",
              "supply_chain", "community_investment">>

GRI_STANDARDS(k) ==
    CASE k = "GRI-2-9" ->
           [framework |-> "GRI", code |-> "2-9", description |-> "Governance structure and composition"]
      [] k = "GRI-3-1" ->
           [framework |-> "GRI", code |-> "3-1", description |-> "Process to determine material topics"]
      [] k = "GRI-305" ->
           [framework |-> "GRI", code |-> "305", description |-> "Emissions-related disclosures"]
      [] k = "GRI-403" ->
           [framework |-> "GRI", code |-> "403", description |-> "Occupational health and safety"]
      [] k = "GRI-413" ->
           [framework |-> "GRI", code |-> "413", description |-> "Local communities"]

\* f"{framework} {code} - {description}"
guideline_link(reference) ==
    <<reference.framework, " ", reference.code, " - ", reference.description>>

\* the "remove duplicates while preserving order" loop
RECURSIVE Dedupe(_, _)
Dedupe(matches, seen) ==
    IF matches = <<>> THEN <<>>
    ELSE IF Head(matches) \in seen THEN Dedupe(Tail(matches), seen)
    ELSE <<Head(matches)>> \o Dedupe(Tail(matches), seen \cup {Head(matches)})

map_topics_to_guidelines(topic_keywords) ==
    LET keywords == {LowerChar(topic_keywords[i]) : i \in DOMAIN topic_keywords}
        Hit(S) == keywords \cap S # {}
        matches ==
            (IF Hit({"governance", "board"})
             THEN <<guideline_link(SSE_GUIDELINES("governance_structure")),
                    guideline_link(GRI_STANDARDS("GRI-2-9"))>> ELSE <<>>)
         \o (IF Hit({"stakeholder", "engagement"})
             THEN <<guideline_link(SSE_GUIDELINES("stakeholder_engagement")),
                    guideline_link(GRI_STANDARDS("GRI-3-1"))>> ELSE <<>>)
         \o (IF Hit({"climate", "emission", "carbon"})
             THEN <<guideline_link(SSE_GUIDELINES("climate_goals")),
                    guideline_link(GRI_STANDARDS("GRI-305"))>> ELSE <<>>)
         \o (IF Hit({"supply", "procurement"})
             THEN <<guideline_link(SSE_GUIDELINES("supply_chain"))>> ELSE <<>>)
         \o (IF Hit({"community", "social"})
             THEN <<guideline_link(SSE_GUIDELINES("community_investment")),
                    guideline_link(GRI_STANDARDS("GRI-413"))>> ELSE <<>>)
         \o (IF Hit({"safety", "health"})
             THEN <<guideline_link(GRI_STANDARDS("GRI-403"))>> ELSE <<>>)
    IN Dedupe(matches, {})

----------------------------------------------------------------------------
(* agents/stakeholder_analysis.py *)

TOUZIZHE == "touzizhe"                      \* "投资者" investors
YUANGONG == "yuangong"                      \* "员工" employees
KEHU == "kehu"                              \* "客户" customers
GONGYINGSHANG == "gongyingshang"            \* "供应商" suppliers
JIANGUANJIGOU == "jianguanjigou"            \* "监管机构" regulators
SHEQU == "shequ_yu_zhoubian_jumin"          \* "社区与周边居民" community
HANGYEXIEHUI == "hangyexiehui"              \* "行业协会" industry association

\* Python evaluates "a or b or c" left to right and stops at the first true
\* operand; "制造" in None raises TypeError.
ManufacturingSignal(industry, description) ==
    IF Contains(industry, ZhiZao) THEN [raised |-> FALSE, value |-> TRUE]
    ELSE IF IsNone(description) THEN [raised |-> TRUE, value |-> FALSE]
    ELSE IF Contains(The(description), ZhiZao) THEN [raised |-> FALSE, value |-> TRUE]
    ELSE [raised |-> FALSE, value |-> Contains(industry, GongYe)]

_default_groups(profile) ==
    LET industry == Lower(profile.industry)
        base == << [category |-> TOUZIZHE, description |-> "gudong ji qianzai touziren"],
                   [category |-> YUANGONG, description |-> "quanzhi yuangong, hetonggong ji shixisheng"],
                   [category |-> KEHU, description |-> "hexin yewu de kehu yu zhongduan yonghu"],
                   [category |-> GONGYINGSHANG, description |-> "guanjian yuancailiao yu fuwu gongyingshang"],
                   [category |-> JIANGUANJIGOU, description |-> "zhengfu, jiaoyisuo deng jianguan zhuti"] >>
        signal == ManufacturingSignal(industry, profile.description)
        community == IF signal.value
                     THEN <<[category |-> SHEQU, description |-> "gongchang suozaidi shequ yu jumin"]>>
                     ELSE <<>>
        association == IF Contains(industry, JinRong)
                       THEN <<[category |-> HANGYEXIEHUI, description |-> "jinrong hangye zilv he hangye zuzhi"]>>
                       ELSE <<>>
    IN IF signal.raised THEN [raised |-> TRUE, value |-> <<>>]
       ELSE [raised |-> FALSE, value |-> base \o community \o association]

_expectations(category) ==
    CASE category = TOUZIZHE -> <<"kechixu fazhan zhanlve yu fengxian guanli touming",
                                  "fuhe SSE 2.1 yaoqiu de dongshihui zhili pilu">>
      [] category = YUANGONG -> <<"zhiye fazhan yu gongping xinchou",
                                  "jiankang yu anquan baozhang (duibiao GRI-403)">>
      [] category = KEHU -> <<"lvse chanpin yu fuwu zhiliang", "xinxi anquan yu yinsi baohu">>
      [] category = GONGYINGSHANG -> <<"fuzeren caigou zhengce", "gongyinglian tanpai touming">>
      [] category = JIANGUANJIGOU -> <<"hegui jingying", "lvxing pilu yiwu">>
      [] category = SHEQU -> <<"shequ goutong jizhi", "huanjing yingxiang zuixiaohua">>
      [] category = HANGYEXIEHUI -> <<"tongye zuijia shijian fenxiang", "hangye biaozhun zhiding canyu">>
      [] OTHER -> <<"chixu goutong yu touming pilu">>

_channels(category) ==
    CASE category = TOUZIZHE -> <<"niandu gudong dahui", "ESG luyan", "kechixu fazhan baogao">>
      [] category = YUANGONG -> <<"yuangong dahui", "neibu shejiao pingtai", "manyidu diaocha">>
      [] category = KEHU -> <<"kehu fuwu rexian", "manyidu diaocha", "chanpin zhaohui jizhi">>
      [] category = GONGYINGSHANG -> <<"gongyingshang dahui", "zeren gongyinglian xieyi", "xianchang shenhe">>
      [] category = JIANGUANJIGOU -> <<"dingqi xinxi pilu", "zhuanxiang huibaohui">>
      [] category = SHEQU -> <<"shequ kaifangri", "shequ rexian", "huanjing jiance gonggao">>
      [] category = HANGYEXIEHUI -> <<"hangye luntan", "biaozhun zhiding gongzuozu">>
      [] OTHER -> <<"youjian goutong", "dingqi huiyi">>

\* a variant that rates an unmapped category Medium
_priorityUnmappedMedium(category) ==
    IF category \in {TOUZIZHE, KEHU, YUANGONG, JIANGUANJIGOU} THEN "High" ELSE "Medium"

_priority(category) ==
    IF category \in {TOUZIZHE, KEHU, YUANGONG, JIANGUANJIGOU} THEN "High"
    ELSE IF category \in {GONGYINGSHANG, SHEQU} THEN "Medium"
    ELSE "Low"

_build_entry(group) ==
    [category |-> group.category,
     description |-> group.description,
     expectations |-> _expectations(group.category),
     engagement_channels |-> _channels(group.category),
     priority |-> _priority(group.category)]

\* a variant whose group list is one list shared by all calls: every call
\* extends what the call before it left
StakeholderRunShared(context) ==
    IF "company" \notin DOMAIN context THEN Raise(KeyError("company"))
    ELSE LET base_groups == _default_groups(context["company"])
             earlier == IF IsNone(last_output[1]) THEN <<>>
                        ELSE The(last_output[1])["stakeholder_map"]
         IN IF base_groups.raised THEN Raise(TypeError)
            ELSE Return([k \in {"stakeholder_map"} |->
                           earlier \o [i \in DOMAIN base_groups.value |->
                                         _build_entry(base_groups.value[i])]])

StakeholderRun(context) ==
    IF "company" \notin DOMAIN context THEN Raise(KeyError("company"))
    ELSE LET base_groups == _default_groups(context["company"])
         IN IF base_groups.raised THEN Raise(TypeError)
            ELSE Return([k \in {"stakeholder_map"} |->
                           [i \in DOMAIN base_groups.value |-> _build_entry(base_groups.value[i])]])

----------------------------------------------------------------------------
(* agents/materiality.py *)

Q_HIGH_HIGH == "gao yingxiang / gao zhongyao"        \* "高影响 / 高重要"
Q_HIGH_MID == "gao yingxiang / zhong zhongyao"       \* "高影响 / 中重要"
Q_MID_HIGH == "zhong yingxiang / gao zhongyao"       \* "中影响 / 高重要"
Q_MID_MID == "zhong yingxiang / zhong zhongyao"      \* "中影响 / 中重要"
Quadrants == {Q_HIGH_HIGH, Q_HIGH_MID, Q_MID_HIGH, Q_MID_MID}

GREEN_FINANCE == "lvse jinrong yu fuzeren touzi"         \* "绿色金融与负责任投资"
CLEAN_PRODUCTION == "qingjie shengchan yu xunhuan jingji" \* "清洁生产与循环经济"

\* the score threshold 4 of _build_matrix, in tenths
Threshold == 40

MaterialTopic(topic) ==
    LET guideline_links == map_topics_to_guidelines(topic.keywords)
    IN [name |-> topic.name,
        description |-> topic.description,
        impact_score |-> topic.impact,
        influence_score |-> topic.influence,
        sse_reference |-> IF guideline_links # <<>> THEN Some(guideline_links[1]) ELSE None,
        gri_reference |-> IF Len(guideline_links) > 1 THEN Some(guideline_links[2]) ELSE None,
        notes |-> None]

\* line 62: "金融" in industry
FinanceTopicSignal(industry) == Contains(industry, JinRong)

\* a variant that tests "工业" alone
ManufacturingTopicSignalGongYeOnly(industry) == Contains(industry, GongYe)

\* line 70: "制造" in industry or "工业" in industry
ManufacturingTopicSignal(industry) == Contains(industry, ZhiZao) \/ Contains(industry, GongYe)

\* the default_topics list once both conditional appends have run
default_topics(industry) ==
    LET base ==
          << [name |-> "gongsi zhili yu hegui",                      \* "公司治理与合规"
              description |-> "dongshihui jiegou, fengxian guanli yu xinxi pilu",
              impact |-> 45, influence |-> 50, keywords |-> <<"governance", "board">>],
             [name |-> "qihou bianhua yu tanpaifang guanli",         \* "气候变化与碳排放管理"
              description |-> "tanjianpai mubiao, nengyuan jiegou yu qihou fengxian yingdui",
              impact |-> 47, influence |-> 43, keywords |-> <<"climate", "carbon">>],
             [name |-> "yuangong fazhan yu anquan",                  \* "员工发展与安全"
              description |-> "yuangong peixun, zhiye fazhan ji jiankang anquan baozhang",
              impact |-> 40, influence |-> 45, keywords |-> <<"employee", "safety", "health">>],
             [name |-> "fuzeren gongyinglian",                       \* "负责任供应链"
              description |-> "gongyingshang guanli, gongyinglian ESG fengxian pinggu",
              impact |-> 38, influence |-> 42, keywords |-> <<"supply", "procurement">>],
             [name |-> "shequ gongjian yu shehui gongxian",          \* "社区共建与社会贡献"
              description |-> "gongyi touru, shequ goutong yu xiangcun zhenxing",
              impact |-> 35, influence |-> 39, keywords |-> <<"community", "social">>] >>
        finance ==
          IF FinanceTopicSignal(industry)
          THEN <<[name |-> GREEN_FINANCE,
                  description |-> "ESG touzi celve, lvse xindai ji fengxian shaicha",
                  impact |-> 42, influence |-> 46, keywords |-> <<"finance", "investment">>]>>
          ELSE <<>>
        manufacturing ==
          IF ManufacturingTopicSignal(industry)
          THEN <<[name |-> CLEAN_PRODUCTION,
                  description |-> "jieneng jianghao, feiqiwu guanli he ziyuan huishou",
                  impact |-> 43, influence |-> 41, keywords |-> <<"resource", "waste">>]>>
          ELSE <<>>
    IN base \o finance \o manufacturing

\* a variant that suggests topics only when there are stakeholders to weigh them
_suggest_topicsForStakeholders(industry, stakeholders) ==
    IF stakeholders = <<>> THEN <<>>
    ELSE [i \in DOMAIN default_topics(industry) |-> MaterialTopic(default_topics(industry)[i])]

_suggest_topics(industry, stakeholders) ==
    LET all == default_topics(industry)
    IN [i \in DOMAIN all |-> MaterialTopic(all[i])]

\* a variant whose thresholds are strict (> 4 in place of >= 4)
QuadrantStrict(topic) ==
    LET impact == topic.impact_score
        influence == topic.influence_score
    IN IF impact > Threshold /\ influence > Threshold THEN Q_HIGH_HIGH
       ELSE IF impact > Threshold THEN Q_HIGH_MID
       ELSE IF influence > Threshold THEN Q_MID_HIGH
       ELSE Q_MID_MID

\* the quadrant one topic is appended to
Quadrant(topic) ==
    LET impact == topic.impact_score
        influence == topic.influence_score
    IN IF impact >= Threshold /\ influence >= Threshold THEN Q_HIGH_HIGH
       ELSE IF impact >= Threshold THEN Q_HIGH_MID
       ELSE IF influence >= Threshold THEN Q_MID_HIGH
       ELSE Q_MID_MID

RECURSIVE NamesIn(_, _)
NamesIn(ts, q) ==
    IF ts = <<>> THEN <<>>
    ELSE (IF Quadrant(Head(ts)) = q THEN <<Head(ts).name>> ELSE <<>>) \o NamesIn(Tail(ts), q)

_build_matrix(ts) ==
    [topics |-> ts, quadrant_summary |-> [q \in Quadrants |-> NamesIn(ts, q)]]

MaterialityRun(context) ==
    IF "company" \notin DOMAIN context THEN Raise(KeyError("company"))
    ELSE LET company_profile == context["company"]
             stakeholder_map == IF "stakeholder_map" \in DOMAIN context
                                THEN context["stakeholder_map"] ELSE <<>>
             base_topics == _suggest_topics(company_profile.industry, stakeholder_map)
         IN Return([k \in {"materiality_matrix"} |-> _build_matrix(base_topics)])

----------------------------------------------------------------------------
(* models.py *)

\* generate_identifier: prefix plus eight hex digits of a fresh uuid4; the
\* digits are whatever the caller drew from Hex
Hex == {"0a", "0b"}
generate_identifier(prefix, hex) == <<prefix, "-", hex>>
DocIds == {generate_identifier("doc", h) : h \in Hex}
PkgIds == {generate_identifier("pkg", h) : h \in Hex}

\* datetime.date values, and date.isoformat() / the parse of an ISO string
\* that pydantic applies to a date field
Date0 == [year |-> 2024, month |-> 1, day |-> 31]
Date1 == [year |-> 2024, month |-> 2, day |-> 1]
Dates == {Date0, Date1}
isoformat(d) == <<d.year, "-", d.month, "-", d.day>>
parse_date(s) == [year |-> s[1], month |-> s[3], day |-> s[5]]

ProcessDocument(identifier, title, category, guideline_links, summary, details, created_at) ==
    [identifier |-> identifier, title |-> title, category |-> category,
     guideline_links |-> guideline_links, summary |-> summary, details |-> details,
     created_at |-> created_at]

----------------------------------------------------------------------------
(* agents/policy_benchmark.py *)

\* the impact score 4.5 from which coverage counts as comprehensive, in tenths
CoverageThreshold == 45

\* list(filter(None, [sse_reference, gri_reference])): None and "" are dropped
References(topic) ==
    (IF IsNone(topic.sse_reference) \/ The(topic.sse_reference) = <<>>
     THEN <<>> ELSE <<The(topic.sse_reference)>>)
 \o (IF IsNone(topic.gri_reference) \/ The(topic.gri_reference) = <<>>
     THEN <<>> ELSE <<The(topic.gri_reference)>>)

\* a variant that takes a score of exactly 4.5 for not enough
PolicyDetailStrict(topic) ==
    LET coverage == IF topic.impact_score > CoverageThreshold
                    THEN "quanmian fugai"
                    ELSE "xu zengqiang"
        references == References(topic)
    IN IF references # <<>>
       THEN <<"zhengce fugai chengdu: ", coverage, "; guanjian biaozhun: ", references>>
       ELSE <<"zhengce fugai chengdu: ", coverage, "; wei yingshe biaozhun">>

PolicyDetail(topic) ==
    LET coverage == IF topic.impact_score >= CoverageThreshold
                    THEN "quanmian fugai"       \* "全面覆盖" comprehensive
                    ELSE "xu zengqiang"         \* "需增强" needs improvement
        references == References(topic)
    IN IF references # <<>>
       THEN <<"zhengce fugai chengdu: ", coverage, "; guanjian biaozhun: ", references>>
       ELSE <<"zhengce fugai chengdu: ", coverage, "; wei yingshe biaozhun">>

RECURSIVE PolicyDetails(_, _)
PolicyDetails(ts, details) ==
    IF ts = <<>> THEN details
    ELSE PolicyDetails(Tail(ts), DictSet(details, Head(ts).name, PolicyDetail(Head(ts))))

PolicyBuildDocument(company_name, mat, identifier, created_at) ==
    ProcessDocument(identifier,
        "zhengce duibiao qingdan",             \* "政策对标清单"
        "policy_alignment",
        [i \in DOMAIN SSE_KEYS |-> guideline_link(SSE_GUIDELINES(SSE_KEYS[i]))],
        <<"jiyu", company_name, "xianyou zhengce wenben de zidong bidui ...">>,
        PolicyDetails(mat.topics, <<>>),
        created_at)

\* context.get("process_documents", [])
DocumentsOf(context) ==
    IF "process_documents" \in DOMAIN context THEN context["process_documents"] ELSE <<>>

\* a variant that puts the new document in front of the earlier ones
PolicyRunPrepend(context, identifier, created_at) ==
    IF "company" \notin DOMAIN context THEN Raise(KeyError("company"))
    ELSE IF "materiality_matrix" \notin DOMAIN context THEN Raise(KeyError("materiality_matrix"))
    ELSE LET document == PolicyBuildDocument(context["company"].name,
                                             context["materiality_matrix"], identifier, created_at)
         IN Return([k \in {"process_documents"} |-> <<document>> \o DocumentsOf(context)])

PolicyRun(context, identifier, created_at) ==
    IF "company" \notin DOMAIN context THEN Raise(KeyError("company"))
    ELSE IF "materiality_matrix" \notin DOMAIN context THEN Raise(KeyError("materiality_matrix"))
    ELSE LET document == PolicyBuildDocument(context["company"].name,
                                             context["materiality_matrix"], identifier, created_at)
         IN Return([k \in {"process_documents"} |-> DocumentsOf(context) \o <<document>>])

----------------------------------------------------------------------------
(* agents/peer_benchmark.py *)

_default_peers(industry) ==
    IF Contains(industry, JinRong)
    THEN <<[name |-> "zhongxin yinhang", focus |-> "lvse xindai"],        \* 中信银行 / 绿色信贷
           [name |-> "zhaoshang yinhang", focus |-> "puhui jinrong"]>>     \* 招商银行 / 普惠金融
    ELSE IF Contains(industry, ZhiZao) \/ Contains(industry, GongYe)
    THEN <<[name |-> "shangqi jituan", focus |-> "tanzhonghe luxiantu"],  \* 上汽集团 / 碳中和路线图
           [name |-> "sanyi zhonggong", focus |-> "zhineng zhizao"]>>      \* 三一重工 / 智能制造
    ELSE <<[name |-> "zhongguo yidong", focus |-> "shuzi ditan zhuanxing"], \* 中国移动 / 数字低碳转型
           [name |-> "alibaba", focus |-> "gongyinglian hegui"]>>           \* 阿里巴巴 / 供应链合规

PeerDetail(peer) ==
    <<"duibiao yaodian: ", peer.focus, "; kejiejian pilu fangshi: anli zhanshi + lianghua zhibiao">>

RECURSIVE PeerDetails(_, _)
PeerDetails(peers, details) ==
    IF peers = <<>> THEN details
    ELSE PeerDetails(Tail(peers), DictSet(details, Head(peers).name, PeerDetail(Head(peers))))

PeerBuildDocument(company, peers, identifier, created_at) ==
    ProcessDocument(identifier,
        "tongye duibiao fenxi",                \* "同业对标分析"
        "peer_benchmark",
        <<guideline_link(GRI_STANDARDS("GRI-3-1"))>>,
        <<"zhendui", company.industry, "hangye de tongye qiye jinxing ESG pilu chaju fenxi ...">>,
        PeerDetails(peers, <<>>),
        created_at)

\* a variant that returns the new document alone, dropping the earlier ones
PeerRunOverwrite(context, identifier, created_at) ==
    IF "company" \notin DOMAIN context THEN Raise(KeyError("company"))
    ELSE LET company == context["company"]
             peers == IF "peer_inputs" \in DOMAIN context THEN context["peer_inputs"]
                      ELSE _default_peers(company.industry)
             document == PeerBuildDocument(company, peers, identifier, created_at)
         IN Return([k \in {"process_documents"} |-> <<document>>])

PeerRun(context, identifier, created_at) ==
    IF "company" \notin DOMAIN context THEN Raise(KeyError("company"))
    ELSE LET company == context["company"]
             peers == IF "peer_inputs" \in DOMAIN context THEN context["peer_inputs"]
                      ELSE _default_peers(company.industry)
             document == PeerBuildDocument(company, peers, identifier, created_at)
         IN Return([k \in {"process_documents"} |-> DocumentsOf(context) \o <<document>>])

----------------------------------------------------------------------------
(* agents/report_compiler.py *)

\* a variant that puts the summary of a later document before the earlier ones
RECURSIVE SummaryLinesNewestFirst(_, _)
SummaryLinesNewestFirst(documents, category) ==
    IF documents = <<>> THEN <<>>
    ELSE SummaryLinesNewestFirst(Tail(documents), category)
         \o (IF Head(documents).category = category
             THEN << <<"<<", Head(documents).title, ">> zhaiyao: ", Head(documents).summary>> >>
             ELSE <<>>)

RECURSIVE SummaryLines(_, _)
SummaryLines(documents, category) ==
    IF documents = <<>> THEN <<>>
    ELSE (IF Head(documents).category = category
          THEN << <<"<<", Head(documents).title, ">> zhaiyao: ", Head(documents).summary>> >>
          ELSE <<>>) \o SummaryLines(Tail(documents), category)

\* "x or placeholder" on an optional text
OrPlaceholder(o, placeholder) ==
    IF IsNone(o) \/ The(o) = <<>> THEN placeholder ELSE The(o)

_compose_report(company, stakeholders, mat, documents) ==
       << <<company.name, " ", company.reporting_year, "nian kechixu fazhan baogao caoan">>,
          <<"1. baogao gailan">>,
          <<"gongsi gaikuang: ", OrPlaceholder(company.description, "(dai buchong qiye miaoshu)")>>,
          <<"fazhan zhanlve: ", OrPlaceholder(company.strategy_focus, "(dai buchong zhanlve zhongdian)")>>,
          <<"2. zhili yu guanli tixi (SSE 2.1 / GRI 2-9)">>,
          <<"dongshihui ji guanliceng fuze ESG de zhize yi shuli ...">>,
          <<"3. liyi xiangguanfang goutong (SSE 4.2 / GRI 3-1)">>,
          <<"zhuyao liyi xiangguanfang liebiao:">> >>
    \o [i \in DOMAIN stakeholders |->
          <<"- ", stakeholders[i].category, " (youxianji: ", stakeholders[i].priority, "): guanzhudian: ",
            stakeholders[i].expectations, "; goutong qudao: ", stakeholders[i].engagement_channels>>]
    \o << <<"4. zhongyaoxing pinggu yu yiti juzhen">>,
          <<"gao yingxiang / gao zhongyao yiti:">> >>
    \o (LET top == IF Q_HIGH_HIGH \in DOMAIN mat.quadrant_summary
                   THEN mat.quadrant_summary[Q_HIGH_HIGH] ELSE <<>>
        IN [i \in DOMAIN top |-> <<"- ", top[i]>>])
    \o << <<"5. zhengce duibiao yu gaijin jianyi">> >>
    \o SummaryLines(documents, "policy_alignment")
    \o << <<"6. tongye duibiao qishi">> >>
    \o SummaryLines(documents, "peer_benchmark")
    \o << <<"7. xiayibu xingdong jihua">>,
          <<"jiehe SSE yu GRI biaozhun, jiang xingcheng zhibiao shuju shouji jihua ...">>,
          <<"fulu: guochengxing wenjian suoyin">> >>
    \o [i \in DOMAIN documents |-> <<"- ", documents[i].title, " (", documents[i].identifier, ")">>]

ESGReportPackage(package_id, company, stakeholder_map, materiality_matrix, process_documents, compiled_report) ==
    [package_id |-> package_id, company |-> company, stakeholder_map |-> stakeholder_map,
     materiality_matrix |-> materiality_matrix, process_documents |-> process_documents,
     compiled_report |-> compiled_report]

\* a variant that reads stakeholder_map with context.get("stakeholder_map", [])
CompilerRunDefaulting(context, identifier) ==
    IF "company" \notin DOMAIN context THEN Raise(KeyError("company"))
    ELSE IF "materiality_matrix" \notin DOMAIN context THEN Raise(KeyError("materiality_matrix"))
    ELSE LET company == context["company"]
             stakeholders == IF "stakeholder_map" \in DOMAIN context
                             THEN context["stakeholder_map"] ELSE <<>>
             mat == context["materiality_matrix"]
             documents == DocumentsOf(context)
             narrative == _compose_report(company, stakeholders, mat, documents)
         IN Return([k \in {"report_package"} |->
                      ESGReportPackage(identifier, company, stakeholders, mat, documents, narrative)])

CompilerRun(context, identifier) ==
    IF "company" \notin DOMAIN context THEN Raise(KeyError("company"))
    ELSE IF "stakeholder_map" \notin DOMAIN context THEN Raise(KeyError("stakeholder_map"))
    ELSE IF "materiality_matrix" \notin DOMAIN context THEN Raise(KeyError("materiality_matrix"))
    ELSE LET company == context["company"]
             stakeholders == context["stakeholder_map"]
             mat == context["materiality_matrix"]
             documents == DocumentsOf(context)
             narrative == _compose_report(company, stakeholders, mat, documents)
         IN Return([k \in {"report_package"} |->
                      ESGReportPackage(identifier, company, stakeholders, mat, documents, narrative)])

----------------------------------------------------------------------------
(* agents/base.py and workflows/esg_workflow.py *)

STAKEHOLDER == "stakeholder_analysis"
MATERIALITY == "materiality"
POLICY == "policy_benchmark"
PEER == "peer_benchmark"
COMPILER == "report_compiler"
AgentNames == {STAKEHOLDER, MATERIALITY, POLICY, PEER, COMPILER}

_default_agents == <<STAKEHOLDER, MATERIALITY, POLICY, PEER, COMPILER>>

\* ESGWorkflow.__init__: list(agents) if agents else self._default_agents()
WorkflowAgents(given) ==
    IF IsNone(given) \/ The(given) = <<>> THEN _default_agents ELSE The(given)

\* agent.run(context); hex is the uuid4 drawn if the agent creates an object
AgentRun(name, context, hex, date) ==
    CASE name = STAKEHOLDER -> StakeholderRun(context)
      [] name = MATERIALITY -> MaterialityRun(context)
      [] name = POLICY -> PolicyRun(context, generate_identifier("doc", hex), date)
      [] name = PEER -> PeerRun(context, generate_identifier("doc", hex), date)
      [] name = COMPILER -> CompilerRun(context, generate_identifier("pkg", hex))

\* whether run draws an identifier at all
DrawsIdentifier(name, context) ==
    /\ name \in {POLICY, PEER, COMPILER}
    /\ ~AgentRun(name, context, "0a", today).raised

\* a variant that does not keep the output in _last_output
AgentCallForgetful(name, context, previous, hex, date) ==
    LET output == AgentRun(name, context, hex, date)
    IN IF output.raised
       THEN [raised |-> TRUE, error |-> output.error, last_output |-> previous, context |-> context]
       ELSE [raised |-> FALSE, error |-> None, last_output |-> previous,
             context |-> Update(context, output.output)]

\* Agent.__call__: an exception of run leaves _last_output and the context alone
AgentCall(name, context, previous, hex, date) ==
    LET output == AgentRun(name, context, hex, date)
    IN IF output.raised
       THEN [raised |-> TRUE, error |-> output.error, last_output |-> previous, context |-> context]
       ELSE [raised |-> FALSE, error |-> None, last_output |-> Some(output.output),
             context |-> Update(context, output.output)]

Runs == {1, 2}

\* execute, lines 31-33: the context is seeded with company, and with
\* peer_inputs if that is truthy (neither None nor an empty list)
Seed(company, peer_inputs) ==
    IF IsNone(peer_inputs) \/ The(peer_inputs) = <<>>
    THEN [k \in {"company"} |-> company]
    ELSE [k \in {"company", "peer_inputs"} |->
            IF k = "company" THEN company ELSE The(peer_inputs)]

ExecuteBegin(r, company, peer_inputs) ==
    /\ pc[r] = "idle"
    /\ pc' = [pc EXCEPT ![r] = "running"]
    /\ args' = [args EXCEPT ![r] = Some([company |-> company, peer_inputs |-> peer_inputs])]
    /\ ctx' = [ctx EXCEPT ![r] = Seed(company, peer_inputs)]
    /\ step' = [step EXCEPT ![r] = 0]
    /\ log' = [log EXCEPT ![r] = <<>>]
    /\ UNCHANGED <<agents, last_output, result, error, archive, today, topics, matrix, trace, config_file, settings_data, flashes>>

\* a variant whose context is an attribute of the workflow, so that every
\* call in progress works on the context the last agent call left
ExecuteStepShared(r) ==
    /\ pc[r] = "running"
    /\ step[r] < Len(agents)
    /\ LET i == step[r] + 1
           name == agents[i]
       IN \E hex \in Hex :
            /\ DrawsIdentifier(name, ctx[r]) \/ hex = "0a"
            /\ LET call == AgentCall(name, ctx[r], last_output[i], hex, today)
               IN /\ log' = [log EXCEPT ![r] = Append(@, name)]
                  /\ last_output' = [last_output EXCEPT ![i] = call.last_output]
                  /\ ctx' = [q \in Runs |-> IF pc[q] = "running" THEN call.context ELSE ctx[q]]
                  /\ IF call.raised
                     THEN /\ pc' = [pc EXCEPT ![r] = "raised"]
                          /\ error' = [error EXCEPT ![r] = Some(call.error)]
                          /\ step' = step
                     ELSE /\ step' = [step EXCEPT ![r] = i]
                          /\ UNCHANGED <<pc, error>>
    /\ UNCHANGED <<agents, args, result, archive, today, topics, matrix, trace, config_file, settings_data, flashes>>

\* one turn of "for agent in self.agents: agent(context)"
ExecuteStep(r) ==
    /\ pc[r] = "running"
    /\ step[r] < Len(agents)
    /\ LET i == step[r] + 1
           name == agents[i]
       IN \E hex \in Hex :
            /\ DrawsIdentifier(name, ctx[r]) \/ hex = "0a"
            /\ LET call == AgentCall(name, ctx[r], last_output[i], hex, today)
               IN /\ log' = [log EXCEPT ![r] = Append(@, name)]
                  /\ last_output' = [last_output EXCEPT ![i] = call.last_output]
                  /\ ctx' = [ctx EXCEPT ![r] = call.context]
                  /\ IF call.raised
                     THEN /\ pc' = [pc EXCEPT ![r] = "raised"]
                          /\ error' = [error EXCEPT ![r] = Some(call.error)]
                          /\ step' = step
                     ELSE /\ step' = [step EXCEPT ![r] = i]
                          /\ UNCHANGED <<pc, error>>
    /\ UNCHANGED <<agents, args, result, archive, today, topics, matrix, trace, config_file, settings_data, flashes>>

\* a variant that reads the package with context.get("report_package")
ExecuteReturnGet(r) ==
    /\ pc[r] = "running"
    /\ step[r] = Len(agents)
    /\ result' = [result EXCEPT ![r] = IF "report_package" \in DOMAIN ctx[r]
                                       THEN Some(ctx[r]["report_package"]) ELSE None]
    /\ pc' = [pc EXCEPT ![r] = "returned"]
    /\ UNCHANGED <<agents, last_output, args, ctx, step, log, error, archive, today,
                   topics, matrix, trace, config_file, settings_data, flashes>>

\* lines 36-37: package = context["report_package"]; return package
ExecuteReturn(r) ==
    /\ pc[r] = "running"
    /\ step[r] = Len(agents)
    /\ IF "report_package" \in DOMAIN ctx[r]
       THEN /\ result' = [result EXCEPT ![r] = Some(ctx[r]["report_package"])]
            /\ pc' = [pc EXCEPT ![r] = "returned"]
            /\ error' = error
       ELSE /\ error' = [error EXCEPT ![r] = Some(KeyError("report_package"))]
            /\ pc' = [pc EXCEPT ![r] = "raised"]
            /\ result' = result
    /\ UNCHANGED <<agents, last_output, args, ctx, step, log, archive, today, topics, matrix, trace, config_file, settings_data, flashes>>

----------------------------------------------------------------------------
(* Inputs *)

\* <<name, region>>: "示例制造" in "中国"
Identities == {<<"shili zhizao", "zhongguo">>}
Industries == SeqsUpTo(Chars, MaxIndustryLen)
\* description: None, "", "制造", "大"
Descriptions == {None, Some(<<>>), Some(ZhiZao), Some(<<"da">>)}

CompanyProfile(name, industry, region, description) ==
    [name |-> name, reporting_year |-> 2023, industry |-> industry, region |-> region,
     description |-> description, strategy_focus |-> None]

Profiles == {CompanyProfile(id[1], i, id[2], d) : id \in Identities, i \in Industries, d \in Descriptions}

PeerA == [name |-> "tongye A", focus |-> "zonghe biaoxian"]    \* "综合表现"
PeerB == [name |-> "tongye B", focus |-> "tan paifang"]        \* "碳排放"
\* a second peer entered under the name of the first
PeerA2 == [name |-> "tongye A", focus |-> "tan paifang"]
PeerInputs == {None, Some(<<>>), Some(<<PeerA, PeerB>>), Some(<<PeerA, PeerA2>>)}

----------------------------------------------------------------------------
(* utils/configuration.py *)

\* name, model_name, provider, api_base, api_key, temperature (in tenths),
\* max_tokens, timeout
AIModelConfig(name, model_name, provider, api_base, api_key, temperature, max_tokens, timeout) ==
    [name |-> name, model_name |-> model_name, provider |-> provider, api_base |-> api_base,
     api_key |-> api_key, temperature |-> temperature, max_tokens |-> max_tokens,
     timeout |-> timeout]

AISettings(active_model, models) == [active_model |-> active_model, models |-> models]

\* AIModelConfig.from_dict on a dict read from the file; the numbers of a
\* written file are numbers, which _safe_float and _safe_int return as they are
from_dict(data) ==
    LET Get(k, default) == IF k \in DOMAIN data THEN data[k] ELSE default
        name == Get("name", "")
        given == Get("model_name", "")
    IN AIModelConfig(name,
                     IF given # "" THEN given ELSE name,
                     Get("provider", ""), Get("api_base", ""), Get("api_key", ""),
                     IF "temperature" \in DOMAIN data THEN data["temperature"] ELSE 7,
                     IF "max_tokens" \in DOMAIN data THEN data["max_tokens"] ELSE 2048,
                     IF "timeout" \in DOMAIN data THEN Some(data["timeout"]) ELSE None)

\* AIModelConfig.to_dict: asdict without the timeout key when timeout is None
to_dict(config) ==
    [k \in {"name", "model_name", "provider", "api_base", "api_key", "temperature", "max_tokens"}
           \cup (IF IsNone(config.timeout) THEN {} ELSE {"timeout"}) |->
        IF k = "timeout" THEN The(config.timeout) ELSE config[k]]

\* AISettings.default(): the model "默认模型"
AISettingsDefault ==
    LET default_model == AIModelConfig("moren moxing", "gpt-4", "openai",
                                       "https://api.openai.com/v1", "", 7, 2048, None)
    IN AISettings(default_model.name, <<default_model>>)

\* AISettings.to_dict
settings_to_dict(settings) ==
    [k \in {"active_model", "models"} |->
        IF k = "active_model" THEN settings.active_model
        ELSE [i \in DOMAIN settings.models |-> to_dict(settings.models[i])]]

\* the settings file: missing, or a text; a text is JSON or it is not
MISSING == [exists |-> FALSE, text |-> None]
EMPTY_TEXT == [valid |-> FALSE, value |-> EmptyDict]
json_dumps(payload) == [valid |-> TRUE, value |-> payload]
json_loads(text) ==
    IF text.valid THEN [raised |-> FALSE, value |-> text.value]
    ELSE [raised |-> TRUE, value |-> EmptyDict]
Written(text) == [exists |-> TRUE, text |-> Some(text)]

\* save_ai_settings: the file after the write
save_ai_settings(settings) == Written(json_dumps(settings_to_dict(settings)))

ModelNames(models) == {models[i].name : i \in DOMAIN models}

\* a variant that returns what the file says without looking at it
load_ai_settingsTrusting(file) ==
    IF file.exists /\ ~json_loads(The(file.text)).raised
    THEN LET data == json_loads(The(file.text)).value
             models_data == IF "models" \in DOMAIN data THEN data["models"] ELSE <<>>
         IN [returned |-> AISettings(IF "active_model" \in DOMAIN data THEN data["active_model"] ELSE "",
                                     [i \in DOMAIN models_data |-> from_dict(models_data[i])]),
             file |-> file]
    ELSE [returned |-> AISettingsDefault, file |-> file]

\* load_ai_settings: what it returns and the file it leaves
load_ai_settings(file) ==
    IF file.exists
    THEN LET loaded == json_loads(The(file.text))
         IN IF loaded.raised THEN [returned |-> AISettingsDefault, file |-> file]
            ELSE LET data == loaded.value
                     models_data == IF "models" \in DOMAIN data THEN data["models"] ELSE <<>>
                     models == [i \in DOMAIN models_data |-> from_dict(models_data[i])]
                     given == IF "active_model" \in DOMAIN data /\ data["active_model"] # ""
                              THEN data["active_model"] ELSE models[1].name
                 IN IF models = <<>>
                    THEN [returned |-> AISettingsDefault, file |-> save_ai_settings(AISettingsDefault)]
                    ELSE [returned |-> AISettings(IF given \in ModelNames(models)
                                                  THEN given ELSE models[1].name, models),
                          file |-> file]
    ELSE [returned |-> AISettingsDefault, file |-> save_ai_settings(AISettingsDefault)]

----------------------------------------------------------------------------
(* ui/app.py: the settings form *)

model_fields == <<"name", "model_name", "provider", "api_base", "api_key", "temperature",
                  "max_tokens", "timeout">>

\* str.strip on the texts a form field holds
Strip(s) ==
    CASE s = "  " -> ""
      [] s = " B " -> "B"
      [] OTHER -> s

\* _extract_model_entries on a form whose models-<index>-<field> keys carry
\* the indexes 0, 1, ... of the rows
_extract_model_entries(form) ==
    [i \in DOMAIN form |->
        [k \in {"index"} \cup DOMAIN form[i] |->
            IF k = "index" THEN ToString(i - 1) ELSE Strip(form[i][k])]]

\* float(raw) and int(raw): the value, or ValueError
ParseNumber(raw) ==
    CASE raw = "0.5" -> [raised |-> FALSE, value |-> 5]
      [] raw = "30" -> [raised |-> FALSE, value |-> 30]
      [] OTHER -> [raised |-> TRUE, value |-> 0]

\* one turn of the loop of _convert_to_configs
ConvertEntry(entry, sofar) ==
    LET name == Strip(entry["name"])
        model_name == IF Strip(entry["model_name"]) # "" THEN Strip(entry["model_name"]) ELSE name
        temperature_raw == Strip(entry["temperature"])
        max_tokens_raw == Strip(entry["max_tokens"])
        timeout_raw == Strip(entry["timeout"])
        temperature == IF temperature_raw # "" THEN ParseNumber(temperature_raw)
                       ELSE [raised |-> FALSE, value |-> 7]
        max_tokens == IF max_tokens_raw # "" THEN ParseNumber(max_tokens_raw)
                      ELSE [raised |-> FALSE, value |-> 2048]
        timeout == ParseNumber(timeout_raw)
        config == AIModelConfig(name, model_name, Strip(entry["provider"]),
                                Strip(entry["api_base"]), Strip(entry["api_key"]),
                                IF temperature.raised THEN 7 ELSE temperature.value,
                                IF max_tokens.raised THEN 2048 ELSE max_tokens.value,
                                IF timeout_raw = "" \/ timeout.raised
                                THEN None ELSE Some(timeout.value))
    IN IF \A i \in DOMAIN model_fields : entry[model_fields[i]] = "" THEN sofar
       ELSE IF name = "" THEN [sofar EXCEPT !.errors = Append(@, "queshao xianshi mingcheng")]
       ELSE [configs |-> Append(sofar.configs, config),
             index_to_name |-> DictSet(sofar.index_to_name, entry["index"], name),
             errors |-> sofar.errors
                        \o (IF temperature.raised THEN <<"wendu geshi bu zhengque">> ELSE <<>>)
                        \o (IF max_tokens.raised THEN <<"zuida Token shu geshi bu zhengque">> ELSE <<>>)
                        \o (IF timeout_raw # "" /\ timeout.raised
                            THEN <<"chaoshi canshu geshi bu zhengque">> ELSE <<>>)]

RECURSIVE ConvertFrom(_, _)
ConvertFrom(entries, sofar) ==
    IF entries = <<>> THEN sofar
    ELSE ConvertFrom(Tail(entries), ConvertEntry(Head(entries), sofar))

_convert_to_configs(entries) ==
    ConvertFrom(entries, [configs |-> <<>>, index_to_name |-> <<>>, errors |-> <<>>])

\* index_to_name.get(selected_index)
NameAt(index_to_name, selected_index) ==
    IF IsNone(selected_index) THEN None
    ELSE IF \E i \in DOMAIN index_to_name : index_to_name[i][1] = The(selected_index)
    THEN Some((CHOOSE pair \in {index_to_name[i] : i \in DOMAIN index_to_name} :
                 pair[1] = The(selected_index))[2])
    ELSE None

----------------------------------------------------------------------------
(* The workflow as constructed, with one execute of the default pipeline *)

\* ESGWorkflow.__init__ and the runs not yet started
WorkflowConstructed(given) ==
    /\ agents = WorkflowAgents(given)
    /\ last_output = [i \in 1..Len(WorkflowAgents(given)) |-> None]
    /\ args = [r \in Runs |-> None]
    /\ ctx = [r \in Runs |-> EmptyDict]
    /\ pc = [r \in Runs |-> "idle"]
    /\ step = [r \in Runs |-> 0]
    /\ log = [r \in Runs |-> <<>>]
    /\ result = [r \in Runs |-> None]
    /\ error = [r \in Runs |-> None]
    /\ archive = EmptyDict
    /\ trace = None

InitWorkflow(given) ==
    /\ WorkflowConstructed(given)
    /\ config_file = MISSING
    /\ settings_data = None
    /\ flashes = <<>>

Init ==
    /\ InitWorkflow(None)
    /\ topics = <<>>
    /\ matrix = None
    /\ today = Date0

Next ==
    \/ \E company \in Profiles, peer_inputs \in PeerInputs : ExecuteBegin(1, company, peer_inputs)
    \/ ExecuteStep(1)
    \/ ExecuteReturn(1)

Spec == Init /\ [][Next]_vars

----------------------------------------------------------------------------
(* A workflow constructed with a caller's agent list, with one execute *)

\* the agents argument of ESGWorkflow(...): every list of up to MaxSteps agents
AgentLists == SeqsUpTo(AgentNames, MaxSteps)

ZongHe == <<"zong", "he">>       \* "综合" general, the form's default industry
SmallProfiles ==
    {CompanyProfile("shili zhizao", i, "zhongguo", d) :
        i \in {ZongHe, ZhiZao, JinRong}, d \in {None, Some(ZhiZao)}}
SmallPeerInputs == {None, Some(<<PeerA>>)}

InitSteps ==
    /\ \E given \in AgentLists : InitWorkflow(Some(given))
    /\ topics = <<>>
    /\ matrix = None
    /\ today = Date0

NextSteps ==
    \/ \E company \in SmallProfiles, peer_inputs \in SmallPeerInputs :
          ExecuteBegin(1, company, peer_inputs)
    \/ ExecuteStep(1)
    \/ ExecuteReturn(1)

SpecSteps == InitSteps /\ [][NextSteps]_vars

----------------------------------------------------------------------------
(* Agents called directly, one after the other, on a context of any shape *)

ContextKeys == {"company", "stakeholder_map", "materiality_matrix",
                "process_documents", "peer_inputs"}

SampleProfiles ==
    {CompanyProfile("shili zhizao", ZongHe, "zhongguo", None),
     CompanyProfile("Example Inc.", JinRong, "EU", Some(ZhiZao))}

SampleDocument ==
    ProcessDocument(generate_identifier("doc", "0b"), "yonghu queren jilu", "user_confirmation",
                    <<>>, "yonghu dui guanjian zhangjie de queren jieguo", <<>>, Date0)

SampleValue(key, company) ==
    CASE key = "company" -> company
      [] key = "stakeholder_map" ->
            [i \in {1} |-> _build_entry([category |-> TOUZIZHE, description |-> "gudong"])]
      [] key = "materiality_matrix" -> _build_matrix(_suggest_topics(ZhiZao, <<>>))
      [] key = "process_documents" -> <<SampleDocument>>
      [] key = "peer_inputs" -> <<PeerA>>

Contexts ==
    {[key \in K |-> SampleValue(key, company)] : K \in SUBSET ContextKeys, company \in SampleProfiles}

InitCall ==
    /\ InitWorkflow(None)
    /\ topics = <<>>
    /\ matrix = None
    /\ today = Date0

\* the caller builds the context the agents are called on
MakeContext(context) ==
    /\ pc[1] = "idle"
    /\ pc' = [pc EXCEPT ![1] = "called"]
    /\ ctx' = [ctx EXCEPT ![1] = context]
    /\ UNCHANGED <<agents, last_output, args, step, log, result, error, archive, today,
                   topics, matrix, trace, config_file, settings_data, flashes>>

\* agent(context) for the agent at position i, called by itself
DirectCall(i) ==
    /\ pc[1] = "called"
    /\ step[1] < MaxCalls
    /\ \E hex \in Hex :
        /\ DrawsIdentifier(agents[i], ctx[1]) \/ hex = "0a"
        /\ LET call == AgentCall(agents[i], ctx[1], last_output[i], hex, today)
           IN /\ log' = [log EXCEPT ![1] = Append(@, agents[i])]
              /\ last_output' = [last_output EXCEPT ![i] = call.last_output]
              /\ ctx' = [ctx EXCEPT ![1] = call.context]
              /\ error' = [error EXCEPT ![1] = IF call.raised THEN Some(call.error) ELSE None]
    /\ step' = [step EXCEPT ![1] = @ + 1]
    /\ UNCHANGED <<agents, args, pc, result, archive, today, topics, matrix, trace, config_file, settings_data, flashes>>

NextCall ==
    \/ \E context \in Contexts : MakeContext(context)
    \/ \E i \in 1..Len(agents) : DirectCall(i)

SpecCall == InitCall /\ [][NextCall]_vars

----------------------------------------------------------------------------
(* _build_matrix on any list of topics *)

\* impact and influence scores: 0, 3.9, 4.0 and the maximum 5.0
MaxScore == 50
Scores == {0, Threshold - 1, Threshold, MaxScore}

AnyTopic(name, impact, influence) ==
    [name |-> name, description |-> "", impact_score |-> impact, influence_score |-> influence,
     sse_reference |-> None, gri_reference |-> None, notes |-> None]

AnyTopics == {AnyTopic(n, i, f) : n \in {"A", "B"}, i \in Scores, f \in Scores}

InitMatrix ==
    /\ InitWorkflow(None)
    /\ topics \in SeqsUpTo(AnyTopics, MaxTopics)
    /\ matrix = None
    /\ today = Date0

BuildMatrix ==
    /\ matrix = None
    /\ matrix' = Some(_build_matrix(topics))
    /\ UNCHANGED <<agents, last_output, args, ctx, pc, step, log, result, error, archive,
                   today, topics, trace, config_file, settings_data, flashes>>

NextMatrix == BuildMatrix

SpecMatrix == InitMatrix /\ [][NextMatrix]_vars

----------------------------------------------------------------------------
(* Two execute calls on one workflow, their steps interleaved in any order *)

RunProfiles ==
    {CompanyProfile("shili zhizao", ZhiZao, "zhongguo", Some(ZhiZao)),
     CompanyProfile("Example Inc.", JinRong, "EU", Some(<<>>))}

InitRuns ==
    /\ InitWorkflow(None)
    /\ topics = <<>>
    /\ matrix = None
    /\ today = Date0

NextRuns ==
    \/ \E r \in Runs, company \in RunProfiles, peer_inputs \in SmallPeerInputs :
          ExecuteBegin(r, company, peer_inputs)
    \/ \E r \in Runs : ExecuteStep(r)
    \/ \E r \in Runs : ExecuteReturn(r)

SpecRuns == InitRuns /\ [][NextRuns]_vars

----------------------------------------------------------------------------
(* utils/filesystem.py: the archive of package.json files *)

\* JSON of an Optional field: null, or the value
JsonOptional(o) == IF IsNone(o) THEN <<"null">> ELSE <<"value", The(o)>>
ParseOptional(j) == IF j[1] = "null" THEN None ELSE Some(j[2])

CompanyJson(c) ==
    [name |-> c.name, reporting_year |-> c.reporting_year, industry |-> c.industry,
     region |-> c.region, description |-> JsonOptional(c.description),
     strategy_focus |-> JsonOptional(c.strategy_focus)]
ParseCompany(j) ==
    [name |-> j.name, reporting_year |-> j.reporting_year, industry |-> j.industry,
     region |-> j.region, description |-> ParseOptional(j.description),
     strategy_focus |-> ParseOptional(j.strategy_focus)]

TopicJson(t) ==
    [name |-> t.name, description |-> t.description,
     sse_reference |-> JsonOptional(t.sse_reference),
     gri_reference |-> JsonOptional(t.gri_reference),
     impact_score |-> t.impact_score, influence_score |-> t.influence_score,
     notes |-> JsonOptional(t.notes)]
ParseTopic(j) ==
    [name |-> j.name, description |-> j.description,
     sse_reference |-> ParseOptional(j.sse_reference),
     gri_reference |-> ParseOptional(j.gri_reference),
     impact_score |-> j.impact_score, influence_score |-> j.influence_score,
     notes |-> ParseOptional(j.notes)]

MatrixJson(m) ==
    [topics |-> [i \in DOMAIN m.topics |-> TopicJson(m.topics[i])],
     quadrant_summary |-> m.quadrant_summary]
ParseMatrix(j) ==
    [topics |-> [i \in DOMAIN j.topics |-> ParseTopic(j.topics[i])],
     quadrant_summary |-> j.quadrant_summary]

DocumentJson(d) ==
    [identifier |-> d.identifier, title |-> d.title, category |-> d.category,
     guideline_links |-> d.guideline_links, summary |-> d.summary, details |-> d.details,
     created_at |-> isoformat(d.created_at)]
\* a variant that does not read the identifier of the payload, so that the
\* field's default_factory makes a new one
ParseDocumentFresh(j) ==
    ProcessDocument(generate_identifier("doc", "0a"), j.title, j.category, j.guideline_links,
                    j.summary, j.details, parse_date(j.created_at))

ParseDocument(j) ==
    ProcessDocument(j.identifier, j.title, j.category, j.guideline_links, j.summary,
                    j.details, parse_date(j.created_at))

\* package.json(indent=2, ensure_ascii=False)
PackageJson(p) ==
    [package_id |-> p.package_id,
     company |-> CompanyJson(p.company),
     stakeholder_map |-> p.stakeholder_map,
     materiality_matrix |-> MatrixJson(p.materiality_matrix),
     process_documents |-> [i \in DOMAIN p.process_documents |-> DocumentJson(p.process_documents[i])],
     compiled_report |-> p.compiled_report]

\* ESGReportPackage.parse_obj(payload)
parse_obj(j) ==
    ESGReportPackage(j.package_id, ParseCompany(j.company), j.stakeholder_map,
                     ParseMatrix(j.materiality_matrix),
                     [i \in DOMAIN j.process_documents |-> ParseDocument(j.process_documents[i])],
                     j.compiled_report)

\* the archive after save_package: <base>/<package_id>/package.json is written
save_package(files, package) ==
    Update(files, [k \in {package.package_id} |-> PackageJson(package)])

\* load_package of a package that is there
load_package(files, package_id) == parse_obj(files[package_id])

----------------------------------------------------------------------------
(* ui/app.py: the start and review handlers *)

\* the one element of a one-element set (used to name a value computed once)
Only(S) == CHOOSE x \in S : TRUE

\* the loop's state after agent i was called in loop state r
AfterCall(r, i, call) ==
    IF call.raised
    THEN [raised |-> TRUE, error |-> Some(call.error), context |-> r.context,
          last_output |-> r.last_output]
    ELSE [raised |-> FALSE, error |-> None, context |-> call.context,
          last_output |-> [r.last_output EXCEPT ![i] = call.last_output]]

\* one turn of "for agent in self.agents: agent(context)" after the turns
\* before it: nothing more happens once an agent has raised
CallNext(run, i, hexes, date) ==
    Only(UNION {IF r.raised \/ i > Len(agents) THEN {r}
                ELSE {AfterCall(r, i, call) :
                        call \in {AgentCall(agents[i], r.context, r.last_output[i], hexes[i], date)}}
                : r \in {run}})

\* the loop over the agents of the workflow that app.py holds (the five default agents)
RunAgents(context, outputs, hexes, date) ==
    LET run0 == [raised |-> FALSE, error |-> None, context |-> context, last_output |-> outputs]
        run1 == CallNext(run0, 1, hexes, date)
        run2 == CallNext(run1, 2, hexes, date)
        run3 == CallNext(run2, 3, hexes, date)
        run4 == CallNext(run3, 4, hexes, date)
    IN CallNext(run4, 5, hexes, date)

\* what execute does with the context the loop leaves, lines 36-37
Outcome(run) ==
    IF run.raised
    THEN [raised |-> TRUE, error |-> run.error, package |-> None, last_output |-> run.last_output]
    ELSE IF "report_package" \notin DOMAIN run.context
    THEN [raised |-> TRUE, error |-> Some(KeyError("report_package")), package |-> None,
          last_output |-> run.last_output]
    ELSE [raised |-> FALSE, error |-> None, package |-> Some(run.context["report_package"]),
          last_output |-> run.last_output]

\* one whole execute
Execute(company, peer_inputs, hexes, date) ==
    Only({Outcome(run) : run \in {RunAgents(Seed(company, peer_inputs), last_output, hexes, date)}})

\* POST /start: execute, then save the package
Start(company, peer_inputs, hexes) ==
    /\ \E run \in {Execute(company, peer_inputs, hexes, today)} :
          /\ last_output' = run.last_output
          /\ archive' = IF run.raised THEN archive ELSE save_package(archive, The(run.package))
    /\ UNCHANGED <<agents, args, ctx, pc, step, log, result, error, today, topics, matrix, trace, config_file, settings_data, flashes>>

\* the confirmation record the review form is turned into
ConfirmationDocument(form, identifier, created_at) ==
    ProcessDocument(identifier,
        "yonghu queren jilu",                  \* "用户确认记录"
        "user_confirmation",
        <<>>,
        "yonghu dui guanjian zhangjie de queren jieguo yu buchong shuoming",
        << <<"yi queren zhangjie",             \* "已确认章节"
             IF form.confirmed_sections # <<>> THEN form.confirmed_sections ELSE <<"dai queren">> >>,
           <<"buchong shuoming",               \* "补充说明"
             IF IsNone(form.notes) \/ The(form.notes) = "" THEN "wu" ELSE The(form.notes)>> >>,
        created_at)

\* a variant that puts the new document first
InsertFirst(package, document) ==
    [package EXCEPT !.process_documents = <<document>> \o @]

\* package.process_documents.append(confirmation_doc)
AppendDocument(package, document) ==
    [package EXCEPT !.process_documents = Append(@, document)]

Confirmations(documents) ==
    Cardinality({i \in DOMAIN documents : documents[i].category = "user_confirmation"})

\* POST /packages/<package_id>: load, append the confirmation, save
Review(package_id, form, hex) ==
    /\ package_id \in DOMAIN archive
    /\ \E package \in {load_package(archive, package_id)} :
          LET confirmation_doc == ConfirmationDocument(form, generate_identifier("doc", hex), today)
          IN /\ Confirmations(package.process_documents) < MaxReviews
             /\ archive' = save_package(archive, AppendDocument(package, confirmation_doc))
    /\ UNCHANGED <<agents, last_output, args, ctx, pc, step, log, result, error, today,
                   topics, matrix, trace, config_file, settings_data, flashes>>

\* the submitted form: no section ticked and no note
Forms == {[confirmed_sections |-> <<>>, notes |-> None]}

ArchiveProfiles == {CompanyProfile("shili zhizao", ZhiZao, "zhongguo", Some(ZhiZao))}

\* the uuid4 draws of one execute: only the last three agents draw
Draws == {h \in [1..Len(_default_agents) -> Hex] : h[1] = "0a" /\ h[2] = "0a"}

InitArchive ==
    /\ InitWorkflow(None)
    /\ topics = <<>>
    /\ matrix = None
    /\ today \in Dates

NextArchive ==
    \/ \E company \in ArchiveProfiles, hexes \in Draws : Start(company, None, hexes)
    \/ \E package_id \in PkgIds, form \in Forms, hex \in Hex : Review(package_id, form, hex)

SpecArchive == InitArchive /\ [][NextArchive]_vars

----------------------------------------------------------------------------
(* Readings of the state used by the properties *)

Finished(r) == pc[r] \in {"returned", "raised"}
Company(r) == The(args[r]).company
Categories(stakeholder_map) == {stakeholder_map[i].category : i \in DOMAIN stakeholder_map}
TopicNames(mat) == {mat.topics[i].name : i \in DOMAIN mat.topics}
Tags(documents) == [i \in DOMAIN documents |-> documents[i].category]

----------------------------------------------------------------------------
(* C1: execute with the default agent list calls exactly the five agents,   *)
(* each once, in the order Stakeholder, Materiality, PolicyBenchmark,       *)
(* PeerBenchmark, ReportCompiler, and when the next agent is about to run   *)
(* the context holds every update the previous agent returned.              *)
C1_FiveStepsInOrder ==
    /\ Finished(1) => log[1] = _default_agents
    /\ \A k \in 1..Len(agents) :
         (pc[1] = "running" /\ step[1] = k) =>
           /\ ~IsNone(last_output[k])
           /\ \A key \in DOMAIN The(last_output[k]) :
                key \in DOMAIN ctx[1] /\ ctx[1][key] = The(last_output[k])[key]

(* C2: with a description that is None or empty, execute never raises and   *)
(* the stakeholder_map it builds is not empty.                              *)
C2_NoDescriptionNeverRaises ==
    (~IsNone(args[1]) /\ Company(1).description \in {None, Some(<<>>)}) =>
        /\ pc[1] # "raised"
        /\ "stakeholder_map" \in DOMAIN ctx[1] => ctx[1]["stakeholder_map"] # <<>>

(* C7: the package a completed execute of the default pipeline returns      *)
(* holds exactly two process documents, the policy_alignment one and then   *)
(* the peer_benchmark one.                                                  *)
C7_TwoDocuments ==
    pc[1] = "returned" =>
        Tags(The(result[1]).process_documents) = <<"policy_alignment", "peer_benchmark">>

C7_Witness ==
    /\ pc[1] = "returned"
    /\ Len(The(result[1]).process_documents) = 2

(* C8: when the industry contains "制造", execute does not fail, the         *)
(* stakeholder_map it builds has the community category and the matrix it   *)
(* builds has the clean-production topic, in the context and in the         *)
(* returned package.                                                        *)
C8_Manufacturing ==
    (~IsNone(args[1]) /\ Contains(Company(1).industry, ZhiZao)) =>
        /\ pc[1] # "raised"
        /\ step[1] >= 1 => SHEQU \in Categories(ctx[1]["stakeholder_map"])
        /\ step[1] >= 2 => CLEAN_PRODUCTION \in TopicNames(ctx[1]["materiality_matrix"])
        /\ pc[1] = "returned" =>
             /\ SHEQU \in Categories(The(result[1]).stakeholder_map)
             /\ CLEAN_PRODUCTION \in TopicNames(The(result[1]).materiality_matrix)

C8_Witness ==
    /\ pc[1] = "returned"
    /\ Contains(Company(1).industry, ZhiZao)
    /\ Company(1).description = Some(ZhiZao)
    /\ SHEQU \in Categories(The(result[1]).stakeholder_map)

(* C9: when the industry contains "金融" and no peer_inputs are given,       *)
(* execute returns a package whose stakeholder_map has "行业协会", whose     *)
(* matrix has the green-finance topic and whose peer_benchmark document is  *)
(* built from the finance pair of default peers.                            *)
FinancePeers == {"zhongxin yinhang", "zhaoshang yinhang"}
C9_Finance ==
    (Finished(1) /\ Contains(Company(1).industry, JinRong)
        /\ The(args[1]).peer_inputs = None) =>
        /\ pc[1] = "returned"
        /\ HANGYEXIEHUI \in Categories(The(result[1]).stakeholder_map)
        /\ GREEN_FINANCE \in TopicNames(The(result[1]).materiality_matrix)
        /\ \E i \in DOMAIN The(result[1]).process_documents :
             LET document == The(result[1]).process_documents[i]
             IN /\ document.category = "peer_benchmark"
                /\ {document.details[j][1] : j \in DOMAIN document.details} = FinancePeers

(* C3: whatever agents the workflow is configured with, when every agent    *)
(* has run and the context has no report_package, execute returns nothing   *)
(* and raises the KeyError that names report_package.                       *)
C3_MissingPackageFails ==
    (step[1] = Len(agents) /\ Finished(1) /\ "report_package" \notin DOMAIN ctx[1]) =>
        /\ pc[1] = "raised"
        /\ error[1] = Some(KeyError("report_package"))
        /\ result[1] = None

C3_Witness ==
    /\ step[1] = Len(agents)
    /\ pc[1] = "raised"
    /\ "report_package" \notin DOMAIN ctx[1]
    /\ error[1] = Some(KeyError("report_package"))

(* C4: an agent called on a context without a key it requires raises the    *)
(* KeyError of a missing required key and leaves the context and its        *)
(* _last_output as they were; an agent whose required keys are all there    *)
(* raises no KeyError, whichever of the other keys are absent.              *)
RequiredKeys(name) ==
    CASE name = POLICY -> {"company", "materiality_matrix"}
      [] name = COMPILER -> {"company", "stakeholder_map", "materiality_matrix"}
      [] OTHER -> {"company"}

C4_MissingInputFails ==
    [][(pc[1] = "called" /\ step'[1] = step[1] + 1) =>
         LET name == log'[1][Len(log'[1])]
             missing == RequiredKeys(name) \ DOMAIN ctx[1]
         IN /\ missing # {} =>
                 /\ ~IsNone(error'[1])
                 /\ The(error'[1]).type = "KeyError"
                 /\ The(error'[1]).key \in missing
                 /\ ctx'[1] = ctx[1]
                 /\ last_output' = last_output
            /\ missing = {} =>
                 (IsNone(error'[1]) \/ The(error'[1]).type # "KeyError")]_vars

C4_Witness ==
    /\ pc[1] = "called"
    /\ log[1] # <<>>
    /\ log[1][Len(log[1])] = COMPILER
    /\ "company" \in DOMAIN ctx[1]
    /\ error[1] = Some(KeyError("stakeholder_map"))

(* C5: _build_matrix puts every topic of its list into exactly one of the   *)
(* four quadrant lists, the one its two scores select: both >= 4 the top    *)
(* one, impact >= 4 only the high-impact one, influence >= 4 only the       *)
(* high-influence one, neither the lowest one.                              *)
ExpectedQuadrant(impact, influence) ==
    IF impact >= 40 /\ influence >= 40 THEN Q_HIGH_HIGH
    ELSE IF impact >= 40 /\ influence < 40 THEN Q_HIGH_MID
    ELSE IF impact < 40 /\ influence >= 40 THEN Q_MID_HIGH
    ELSE Q_MID_MID

Occurrences(seq, x) == Cardinality({i \in DOMAIN seq : seq[i] = x})

C5_QuadrantPartition ==
    ~IsNone(matrix) =>
        LET summary == The(matrix).quadrant_summary
        IN /\ DOMAIN summary = Quadrants
           /\ \A q \in Quadrants, n \in {"A", "B"} :
                Occurrences(summary[q], n) =
                  Cardinality({i \in DOMAIN topics :
                     /\ topics[i].name = n
                     /\ ExpectedQuadrant(topics[i].impact_score, topics[i].influence_score) = q})

C5_Witness ==
    /\ ~IsNone(matrix)
    /\ Len(topics) = 2
    /\ topics[1].impact_score = 40 /\ topics[1].influence_score = 39
    /\ topics[2].impact_score = 39 /\ topics[2].influence_score = 40
    /\ The(matrix).quadrant_summary[Q_HIGH_MID] = <<topics[1].name>>
    /\ The(matrix).quadrant_summary[Q_MID_HIGH] = <<topics[2].name>>

(* C6: two execute calls with the same company and the same peer_inputs     *)
(* build equal stakeholder maps and equal materiality matrices (topics and  *)
(* quadrant summary), in their contexts and in the packages they return,    *)
(* whatever ran on the workflow before or in between.                       *)
C6_SameInputsSameContent ==
    \A r1 \in Runs, r2 \in Runs :
        (~IsNone(args[r1]) /\ args[r1] = args[r2]) =>
            /\ \A key \in {"stakeholder_map", "materiality_matrix"} :
                 (key \in DOMAIN ctx[r1] /\ key \in DOMAIN ctx[r2]) => ctx[r1][key] = ctx[r2][key]
            /\ (pc[r1] = "returned" /\ pc[r2] = "returned") =>
                 /\ The(result[r1]).stakeholder_map = The(result[r2]).stakeholder_map
                 /\ The(result[r1]).materiality_matrix = The(result[r2]).materiality_matrix

C6_Witness ==
    /\ pc[1] = "returned" /\ pc[2] = "returned"
    /\ args[1] = args[2]
    /\ The(result[1]).package_id # The(result[2]).package_id
    /\ The(result[1]).process_documents[1].identifier
         # The(result[2]).process_documents[1].identifier
    /\ The(result[1]).stakeholder_map = The(result[2]).stakeholder_map

(* C10: a review that appends a confirmation to a stored package and saves  *)
(* it leaves every document that was stored at its position, unchanged,     *)
(* and adds exactly one document, the confirmation, at the end; this holds  *)
(* for every review, so for any number of them in a row.                    *)
C10_AppendPreserves ==
    [][\A package_id \in PkgIds, form \in Forms, hex \in Hex :
          Review(package_id, form, hex) =>
             LET stored == archive[package_id].process_documents
                 saved == archive'[package_id].process_documents
                 before == load_package(archive, package_id).process_documents
                 after == load_package(archive', package_id).process_documents
             IN /\ Len(saved) = Len(stored) + 1
                /\ SubSeq(saved, 1, Len(stored)) = stored
                /\ Len(after) = Len(before) + 1
                /\ SubSeq(after, 1, Len(before)) = before
                /\ after[Len(after)].category = "user_confirmation"
                /\ after[Len(after)].identifier = generate_identifier("doc", hex)]_vars

C10_Witness ==
    \E package_id \in DOMAIN archive :
        LET documents == load_package(archive, package_id).process_documents
        IN /\ Tags(documents) = <<"policy_alignment", "peer_benchmark",
                                  "user_confirmation", "user_confirmation">>
           /\ documents[3].identifier # documents[4].identifier

----------------------------------------------------------------------------
(* save_package followed by load_package, on any package *)

\* process documents of any identifier (equal identifiers included), tag and date
AnyDocuments ==
    {ProcessDocument(identifier, "wenjian", category, <<>>, "zhaiyao", <<>>, created_at) :
        identifier \in DocIds, category \in {"policy_alignment", "user_confirmation"},
        created_at \in Dates}

AnyPackages ==
    {ESGReportPackage(package_id, company, <<>>, _build_matrix(<<>>), documents, "baogao") :
        package_id \in PkgIds, company \in ArchiveProfiles,
        documents \in SeqsUpTo(AnyDocuments, MaxDocuments)}

\* the archive starts empty
InitRoundTrip ==
    /\ InitWorkflow(None)
    /\ topics = <<>>
    /\ matrix = None
    /\ today = Date0

\* repository.save_package(package)
SavePackage(package) ==
    /\ pc[1] = "idle"
    /\ args' = [args EXCEPT ![1] = Some(package)]
    /\ archive' = save_package(archive, package)
    /\ pc' = [pc EXCEPT ![1] = "saved"]
    /\ UNCHANGED <<agents, last_output, ctx, step, log, result, error, today, topics, matrix, trace, config_file, settings_data, flashes>>

\* repository.load_package(package_id) with the id save_package returned
LoadPackage ==
    /\ pc[1] = "saved"
    /\ result' = [result EXCEPT ![1] = Some(load_package(archive, The(args[1]).package_id))]
    /\ pc' = [pc EXCEPT ![1] = "loaded"]
    /\ UNCHANGED <<agents, last_output, args, ctx, step, log, error, archive, today,
                   topics, matrix, trace, config_file, settings_data, flashes>>

NextRoundTrip ==
    \/ \E package \in AnyPackages : SavePackage(package)
    \/ LoadPackage

SpecRoundTrip == InitRoundTrip /\ [][NextRoundTrip]_vars

Identifiers(documents) == [i \in DOMAIN documents |-> documents[i].identifier]

(* C11: the package load_package returns for a package that save_package    *)
(* has just stored has the same package_id and a process_documents list of  *)
(* the same length whose documents carry the same identifiers in the same   *)
(* order.                                                                   *)
C11_RoundTrip ==
    pc[1] = "loaded" =>
        /\ The(result[1]).package_id = The(args[1]).package_id
        /\ Len(The(result[1]).process_documents) = Len(The(args[1]).process_documents)
        /\ Identifiers(The(result[1]).process_documents)
             = Identifiers(The(args[1]).process_documents)

C11_Witness ==
    /\ pc[1] = "loaded"
    /\ Len(The(args[1]).process_documents) = 2
    /\ Identifiers(The(result[1]).process_documents)
         = <<generate_identifier("doc", "0b"), generate_identifier("doc", "0b")>>
    /\ The(result[1]).process_documents[1].created_at = Date1

----------------------------------------------------------------------------
(* The minimal keyword-matching stakeholder analysis that                   *)
(* tests/test_stakeholder_analysis.py imports (_default_groups on a         *)
(* profiles.CompanyProfile); its text is kept as a sequence of words.       *)

EMPLOYEE_KEYWORDS == {"employee", "staff", "workforce"}
CUSTOMER_KEYWORDS == {"customer", "client", "consumer", "user"}
DEFAULT_GROUP_NAMES == <<"Investors", "Employees", "Customers", "Suppliers", "Regulators">>

\* profiles.CompanyProfile: only name is required
SimpleCompanyProfile(name, description, industry) ==
    [name |-> name, description |-> description, industry |-> industry, headquarters |-> None]

\* the free text the keywords are looked up in: description and industry,
\* each "" when absent, in lower case
NormalisedText(profile) ==
    Lower((IF IsNone(profile.description) THEN <<>> ELSE The(profile.description))
          \o (IF IsNone(profile.industry) THEN <<>> ELSE The(profile.industry)))

MatchesAny(text, keywords) == \E k \in keywords : Contains(text, <<k>>)

\* a variant that looks the keywords up in the text as written
KeywordDefaultGroupsCaseSensitive(profile) ==
    LET text == (IF IsNone(profile.description) THEN <<>> ELSE The(profile.description))
                \o (IF IsNone(profile.industry) THEN <<>> ELSE The(profile.industry))
        matched == (IF MatchesAny(text, EMPLOYEE_KEYWORDS) THEN <<"Employees">> ELSE <<>>)
                   \o (IF MatchesAny(text, CUSTOMER_KEYWORDS) THEN <<"Customers">> ELSE <<>>)
    IN IF matched = <<>> THEN DEFAULT_GROUP_NAMES ELSE matched

\* _default_groups(profile): the groups whose keywords occur, or the full
\* default list when none does
KeywordDefaultGroups(profile) ==
    LET text == NormalisedText(profile)
        matched == (IF MatchesAny(text, EMPLOYEE_KEYWORDS) THEN <<"Employees">> ELSE <<>>)
                   \o (IF MatchesAny(text, CUSTOMER_KEYWORDS) THEN <<"Customers">> ELSE <<>>)
    IN IF matched = <<>> THEN DEFAULT_GROUP_NAMES ELSE matched

\* the words a description or industry is made of
EmployeeWords == {"EMPLOYEE", "Employee", "employee", "STAFF"}
CustomerWords == {"CLIENT", "Client", "client", "User"}
Words == EmployeeWords \cup CustomerWords \cup {"cafes"}

KeywordProfiles ==
    {SimpleCompanyProfile("Example", description, industry) :
        description \in {None} \cup {Some(t) : t \in SeqsUpTo(Words, MaxWords)},
        industry \in {None, Some(<<"STAFF">>), Some(<<"cafes">>)}}

InitKeywords ==
    /\ InitWorkflow(None)
    /\ topics = <<>>
    /\ matrix = None
    /\ today = Date0

\* groups = _default_groups(profile)
DeriveGroups(profile) ==
    /\ pc[1] = "idle"
    /\ args' = [args EXCEPT ![1] = Some(profile)]
    /\ result' = [result EXCEPT ![1] = Some(KeywordDefaultGroups(profile))]
    /\ pc' = [pc EXCEPT ![1] = "derived"]
    /\ UNCHANGED <<agents, last_output, ctx, step, log, error, archive, today, topics, matrix, trace, config_file, settings_data, flashes>>

NextKeywords == \E profile \in KeywordProfiles : DeriveGroups(profile)

SpecKeywords == InitKeywords /\ [][NextKeywords]_vars

\* whether the profile's description holds one of the words, as written
DescriptionHas(profile, words) ==
    /\ ~IsNone(profile.description)
    /\ \E i \in DOMAIN The(profile.description) : The(profile.description)[i] \in words

GroupNames(groups) == {groups[i] : i \in DOMAIN groups}

----------------------------------------------------------------------------
\* the same execute on a workflow that nothing else uses: no agent has run
\* before it and none runs during it
Alone(company, peer_inputs) ==
    Only({Outcome(run) : run \in {RunAgents(Seed(company, peer_inputs),
                                            [i \in 1..Len(agents) |-> None],
                                            [i \in 1..Len(agents) |-> "0a"], today)}})

\* the documents without the identifiers that each run draws for itself
Unidentified(documents) == [i \in DOMAIN documents |-> [documents[i] EXCEPT !.identifier = "doc"]]

(* C13: with the steps of two execute calls on one workflow interleaved,    *)
(* no step changes the context of the other call, and the package a call    *)
(* returns has the stakeholder_map, the materiality_matrix and the process  *)
(* documents (tags, order, content; identifiers aside) that the same call   *)
(* returns when it runs alone.                                              *)
C13_InterleavedRunsIsolated ==
    /\ [](\A r \in Runs :
            pc[r] = "returned" =>
              \E alone \in {Alone(Company(r), The(args[r]).peer_inputs)} :
                 /\ ~alone.raised
                 /\ The(result[r]).stakeholder_map = The(alone.package).stakeholder_map
                 /\ The(result[r]).materiality_matrix = The(alone.package).materiality_matrix
                 /\ Unidentified(The(result[r]).process_documents)
                      = Unidentified(The(alone.package).process_documents))
    /\ [][\A r \in Runs :
            ctx'[r] # ctx[r] =>
              /\ step'[r] # step[r] \/ pc'[r] # pc[r]
              /\ \A q \in Runs \ {r} : ctx'[q] = ctx[q]]_vars

C13_Witness ==
    /\ pc[1] = "returned"
    /\ pc[2] = "running" /\ step[2] = 2
    /\ Company(1) # Company(2)
    /\ The(last_output[2])["materiality_matrix"] = The(result[1]).materiality_matrix
    /\ ctx[2]["materiality_matrix"] # The(result[1]).materiality_matrix

----------------------------------------------------------------------------
(* C14 as stated: once execute has returned, the workflow and its agents    *)
(* are in the state they were in before the call (the agent list as         *)
(* configured, no agent holding an output), so nothing the run produced     *)
(* is kept but the returned package.                                        *)
C14_StatelessBetweenRuns ==
    pc[1] = "returned" =>
        /\ agents = _default_agents
        /\ \A i \in DOMAIN last_output : IsNone(last_output[i])

(* C14 amended: once execute has returned, the agent list is as configured  *)
(* and every agent holds in _last_output exactly the update it returned     *)
(* during the run: the stakeholder map, the matrix, the document list as    *)
(* the policy step left it, the document list as the peer step left it,     *)
(* and the returned package.                                                *)
C14_AgentsKeepLastOutput ==
    pc[1] = "returned" =>
        /\ agents = _default_agents
        /\ last_output[1] = Some([k \in {"stakeholder_map"} |-> The(result[1]).stakeholder_map])
        /\ last_output[2] = Some([k \in {"materiality_matrix"} |-> The(result[1]).materiality_matrix])
        /\ last_output[3] = Some([k \in {"process_documents"} |->
                                    SubSeq(The(result[1]).process_documents, 1, 1)])
        /\ last_output[4] = Some([k \in {"process_documents"} |-> The(result[1]).process_documents])
        /\ last_output[5] = Some([k \in {"report_package"} |-> The(result[1])])

C14_Witness ==
    /\ pc[1] = "returned"
    /\ ~IsNone(last_output[5])
    /\ The(last_output[5])["report_package"] = The(result[1])
    /\ Len(The(last_output[3])["process_documents"]) = 1
    /\ Len(The(last_output[4])["process_documents"]) = 2

----------------------------------------------------------------------------
\* the peer_benchmark document of a package
PeerDocument(package) ==
    package.process_documents[CHOOSE i \in DOMAIN package.process_documents :
                                 package.process_documents[i].category = "peer_benchmark"]

\* the <<name, focus>> pairs a details mapping was built from
PeerEntries(details) == {<<details[j][1], details[j][2][2]>> : j \in DOMAIN details}

ExpectedDefaultPeers(industry) ==
    IF Contains(industry, JinRong)
    THEN {<<"zhongxin yinhang", "lvse xindai">>, <<"zhaoshang yinhang", "puhui jinrong">>}
    ELSE IF Contains(industry, ZhiZao) \/ Contains(industry, GongYe)
    THEN {<<"shangqi jituan", "tanzhonghe luxiantu">>, <<"sanyi zhonggong", "zhineng zhizao">>}
    ELSE {<<"zhongguo yidong", "shuzi ditan zhuanxing">>, <<"alibaba", "gongyinglian hegui">>}

(* C15: in the package execute returns, the details of the peer_benchmark   *)
(* document hold one entry for each peer of a non-empty peer_inputs, with   *)
(* that peer's focus; with no or empty peer_inputs the context has no       *)
(* peer_inputs key and the details are those of the default pair of the     *)
(* industry: finance, else manufacturing or industrial, else general.       *)
C15_PeerDetails ==
    pc[1] = "returned" =>
        LET given == The(args[1]).peer_inputs
            details == PeerDocument(The(result[1])).details
        IN IF ~IsNone(given) /\ The(given) # <<>>
           THEN /\ Len(details) = Len(The(given))
                /\ \A i \in DOMAIN The(given) :
                     <<The(given)[i].name, The(given)[i].focus>> \in PeerEntries(details)
           ELSE /\ "peer_inputs" \notin DOMAIN ctx[1]
                /\ Len(details) = 2
                /\ PeerEntries(details) = ExpectedDefaultPeers(Company(1).industry)

----------------------------------------------------------------------------
(* The report compiler called on stakeholder and document lists of any order *)

TitledDocuments ==
    {ProcessDocument(generate_identifier("doc", named[1]), named[2], category, <<>>, <<"zhaiyao ", named[2]>>, <<>>, Date0) :
        named \in {<<"0a", "T1">>, <<"0b", "T2">>},
        category \in {"policy_alignment", "peer_benchmark", "user_confirmation"}}

AnyStakeholders ==
    {_build_entry([category |-> c, description |-> "miaoshu"]) : c \in {YUANGONG, TOUZIZHE}}

ComposeContexts ==
    {[key \in {"company", "stakeholder_map", "materiality_matrix", "process_documents"} |->
        CASE key = "company" -> company
          [] key = "stakeholder_map" -> stakeholders
          [] key = "materiality_matrix" -> _build_matrix(_suggest_topics(ZhiZao, <<>>))
          [] key = "process_documents" -> documents] :
        company \in ArchiveProfiles,
        stakeholders \in SeqsUpTo(AnyStakeholders, MaxStakeholders),
        documents \in SeqsUpTo(TitledDocuments, MaxDocuments)}

NextCompose ==
    \/ \E context \in ComposeContexts : MakeContext(context)
    \/ DirectCall(Len(agents))

SpecCompose == InitCall /\ [][NextCompose]_vars

\* the lines of a report from the line after one heading up to the line
\* before the next one
IndexOf(report, heading) == CHOOSE i \in DOMAIN report : report[i] = <<heading>>
Between(report, heading, next) ==
    SubSeq(report, IndexOf(report, heading) + 1, IndexOf(report, next) - 1)
After(report, heading) == SubSeq(report, IndexOf(report, heading) + 1, Len(report))

OfCategory(documents, category) ==
    LET Test(d) == d.category = category IN SelectSeq(documents, Test)

(* C16: in the compiled narrative the stakeholder lines follow the order of *)
(* the stakeholder_map list, the policy summaries and the peer summaries    *)
(* follow the order of the process_documents list, and the appendix index   *)
(* has one line per process document, in list order, with its identifier.   *)
C16_NarrativeKeepsListOrder ==
    (pc[1] = "called" /\ "report_package" \in DOMAIN ctx[1]) =>
        LET package == ctx[1]["report_package"]
            report == package.compiled_report
            stakeholders == ctx[1]["stakeholder_map"]
            documents == ctx[1]["process_documents"]
            listed == Between(report, "zhuyao liyi xiangguanfang liebiao:",
                              "4. zhongyaoxing pinggu yu yiti juzhen")
            policies == Between(report, "5. zhengce duibiao yu gaijin jianyi",
                                "6. tongye duibiao qishi")
            peers == Between(report, "6. tongye duibiao qishi", "7. xiayibu xingdong jihua")
            index == After(report, "fulu: guochengxing wenjian suoyin")
        IN /\ [i \in DOMAIN listed |-> <<listed[i][2], listed[i][4]>>]
                = [i \in DOMAIN stakeholders |-> <<stakeholders[i].category, stakeholders[i].priority>>]
           /\ [i \in DOMAIN policies |-> <<policies[i][2], policies[i][4]>>]
                = [i \in DOMAIN OfCategory(documents, "policy_alignment") |->
                     <<OfCategory(documents, "policy_alignment")[i].title,
                       OfCategory(documents, "policy_alignment")[i].summary>>]
           /\ [i \in DOMAIN peers |-> <<peers[i][2], peers[i][4]>>]
                = [i \in DOMAIN OfCategory(documents, "peer_benchmark") |->
                     <<OfCategory(documents, "peer_benchmark")[i].title,
                       OfCategory(documents, "peer_benchmark")[i].summary>>]
           /\ Len(index) = Len(documents)
           /\ [i \in DOMAIN index |-> <<index[i][2], index[i][4]>>]
                = [i \in DOMAIN documents |-> <<documents[i].title, documents[i].identifier>>]

C16_Witness ==
    /\ pc[1] = "called"
    /\ "report_package" \in DOMAIN ctx[1]
    /\ Categories(ctx[1]["stakeholder_map"]) = {YUANGONG, TOUZIZHE}
    /\ ctx[1]["stakeholder_map"][1].category = YUANGONG
    /\ Tags(ctx[1]["process_documents"]) = <<"peer_benchmark", "policy_alignment">>
    /\ ctx[1]["process_documents"][1].title = "T2"
    /\ ctx[1]["process_documents"][2].title = "T1"
    /\ ctx[1]["process_documents"][1].identifier = generate_identifier("doc", "0b")
    /\ ctx[1]["process_documents"][2].identifier = generate_identifier("doc", "0a")

----------------------------------------------------------------------------
(* debug_trace, called at any point before, between or after the steps of   *)
(* an execute, on a workflow of any configuration                           *)

\* the description attribute of each agent class
AgentDescription(name) ==
    CASE name = STAKEHOLDER -> "Identify and prioritise key stakeholder groups."
      [] name = MATERIALITY -> "Build materiality matrix using stakeholder and business impact criteria."
      [] name = POLICY -> "Compare internal policies with disclosure requirements."
      [] name = PEER -> "Compare disclosures with peer companies."
      [] name = COMPILER -> "Create a narrative ESG report draft covering SSE and GRI structure."

\* a variant that puts each entry in front of the ones before it
debug_traceReversed ==
    [i \in DOMAIN agents |->
        [name |-> agents[Len(agents) + 1 - i],
         description |-> AgentDescription(agents[Len(agents) + 1 - i])]]

debug_trace ==
    [i \in DOMAIN agents |-> [name |-> agents[i], description |-> AgentDescription(agents[i])]]

\* trace = workflow.debug_trace()
DebugTrace ==
    /\ trace' = Some(debug_trace)
    /\ UNCHANGED <<agents, last_output, args, ctx, pc, step, log, result, error, archive,
                   today, topics, matrix, config_file, settings_data, flashes>>

InitTrace ==
    /\ \E given \in {None} \cup {Some(list) : list \in AgentLists} : InitWorkflow(given)
    /\ topics = <<>>
    /\ matrix = None
    /\ today = Date0

NextTrace ==
    \/ \E company \in SmallProfiles, peer_inputs \in SmallPeerInputs :
          ExecuteBegin(1, company, peer_inputs)
    \/ ExecuteStep(1)
    \/ ExecuteReturn(1)
    \/ DebugTrace

SpecTrace == InitTrace /\ [][NextTrace]_vars

(* C17: what debug_trace returns has one entry per configured agent, in the *)
(* configured order, with that agent's name and description; a call of it   *)
(* changes nothing of the workflow, its agents or an execute in progress;   *)
(* and an execute ends as it ends on a workflow on which debug_trace is     *)
(* never called.                                                            *)
C17_DebugTraceReadOnly ==
    /\ [](~IsNone(trace) =>
            /\ Len(The(trace)) = Len(agents)
            /\ \A i \in DOMAIN agents :
                 The(trace)[i] = [name |-> agents[i], description |-> AgentDescription(agents[i])])
    /\ [][trace' # trace =>
            UNCHANGED <<agents, last_output, args, ctx, pc, step, log, result, error, archive>>]_vars
    /\ [](Finished(1) =>
            \E alone \in {Alone(Company(1), The(args[1]).peer_inputs)} :
               /\ alone.raised = (pc[1] = "raised")
               /\ alone.raised => alone.error = error[1]
               /\ ~alone.raised =>
                    /\ The(result[1]).stakeholder_map = The(alone.package).stakeholder_map
                    /\ The(result[1]).materiality_matrix = The(alone.package).materiality_matrix
                    /\ Unidentified(The(result[1]).process_documents)
                         = Unidentified(The(alone.package).process_documents))

C17_Witness ==
    /\ pc[1] = "returned"
    /\ ~IsNone(trace)
    /\ Len(The(trace)) = 5
    /\ The(trace)[1].name = STAKEHOLDER
    /\ The(trace)[5].name = COMPILER

----------------------------------------------------------------------------
\* the keys of the default pipeline in the order they are produced
Milestones == <<"company", "stakeholder_map", "materiality_matrix", "process_documents",
                "report_package">>
Reached(context) == {i \in DOMAIN Milestones : Milestones[i] \in DOMAIN context}

(* C18: in an execute of the default pipeline no step removes a key of the  *)
(* context; the keys company, stakeholder_map, materiality_matrix,          *)
(* process_documents and report_package appear one at a time in this        *)
(* order; and the value under company, stakeholder_map or                   *)
(* materiality_matrix, once written, is never replaced.                     *)
C18_ContextMovesForward ==
    [][/\ DOMAIN ctx[1] \subseteq DOMAIN ctx'[1]
       /\ Reached(ctx'[1]) = 1..Cardinality(Reached(ctx'[1]))
       /\ Cardinality(Reached(ctx'[1])) <= Cardinality(Reached(ctx[1])) + 1
       /\ \A key \in {"company", "stakeholder_map", "materiality_matrix"} :
            key \in DOMAIN ctx[1] => ctx'[1][key] = ctx[1][key]]_vars

C18_Witness ==
    /\ pc[1] = "returned"
    /\ Reached(ctx[1]) = 1..5
    /\ "peer_inputs" \in DOMAIN ctx[1]
    /\ Len(ctx[1]["process_documents"]) = 2

----------------------------------------------------------------------------
\* the tag of the document a benchmark agent adds
StepTag(name) == IF name = POLICY THEN "policy_alignment" ELSE "peer_benchmark"
Position(name) == CHOOSE i \in DOMAIN agents : agents[i] = name

(* C19: a call of the policy or the peer agent that does not fail, on a     *)
(* context whose process_documents is the list L (empty when the key is     *)
(* absent), returns process_documents alone, equal to L followed by one     *)
(* new document with the agent's tag; every other entry of the context is   *)
(* as before, and so is what the other agents hold, the list L included.    *)
C19_BenchmarksAppendOnly ==
    [][(pc[1] = "called" /\ step'[1] = step[1] + 1 /\ IsNone(error'[1])
            /\ log'[1][Len(log'[1])] \in {POLICY, PEER}) =>
         LET name == log'[1][Len(log'[1])]
             L == DocumentsOf(ctx[1])
             returned == The(last_output'[Position(name)])
         IN /\ DOMAIN returned = {"process_documents"}
            /\ Len(returned["process_documents"]) = Len(L) + 1
            /\ SubSeq(returned["process_documents"], 1, Len(L)) = L
            /\ returned["process_documents"][Len(L) + 1].category = StepTag(name)
            /\ DOMAIN ctx'[1] = DOMAIN ctx[1] \cup {"process_documents"}
            /\ \A key \in DOMAIN ctx[1] \ {"process_documents"} : ctx'[1][key] = ctx[1][key]
            /\ \A j \in DOMAIN agents \ {Position(name)} : last_output'[j] = last_output[j]]_vars

C19_Witness ==
    /\ pc[1] = "called"
    /\ log[1] = <<POLICY, PEER>>
    /\ IsNone(error[1])
    /\ Tags(ctx[1]["process_documents"]) = <<"user_confirmation", "policy_alignment", "peer_benchmark">>
    /\ The(last_output[Position(POLICY)])["process_documents"]
         = SubSeq(ctx[1]["process_documents"], 1, 2)

----------------------------------------------------------------------------
\* the policy_alignment document of a list of documents
PolicyDocument(documents) ==
    documents[CHOOSE i \in DOMAIN documents : documents[i].category = "policy_alignment"]

\* the references a topic carries, the sse one first
Resolved(topic) ==
    (IF IsNone(topic.sse_reference) THEN <<>> ELSE <<The(topic.sse_reference)>>)
    \o (IF IsNone(topic.gri_reference) THEN <<>> ELSE <<The(topic.gri_reference)>>)

(* C20: once the policy step has run, the details of the policy_alignment   *)
(* document have one entry per topic of the matrix, under the topic's name; *)
(* the entry says full coverage when the impact score is at least 4.5 and   *)
(* needs improvement when it is less; it lists the topic's references, or   *)
(* carries the no-mapped-standard marker exactly when the topic has none;   *)
(* and the policy step never fails, whatever references the topics have.    *)
C20_PolicyDetails ==
    /\ pc[1] = "raised" => step[1] # 2
    /\ step[1] >= 3 =>
         LET topic_list == ctx[1]["materiality_matrix"].topics
             details == PolicyDocument(ctx[1]["process_documents"]).details
         IN /\ Len(details) = Len(topic_list)
            /\ \A i \in DOMAIN topic_list :
                 LET topic == topic_list[i]
                     entry == details[i][2]
                 IN /\ details[i][1] = topic.name
                    /\ entry[2] = (IF topic.impact_score >= 45 THEN "quanmian fugai" ELSE "xu zengqiang")
                    /\ (entry[3] = "; wei yingshe biaozhun") = (Resolved(topic) = <<>>)
                    /\ Resolved(topic) # <<>> =>
                         /\ entry[3] = "; guanjian biaozhun: "
                         /\ entry[4] = Resolved(topic)

C20_Witness ==
    /\ pc[1] = "returned"
    /\ LET topic_list == The(result[1]).materiality_matrix.topics
           details == PolicyDocument(The(result[1]).process_documents).details
       IN /\ topic_list[1].impact_score = 45
          /\ details[1][2][2] = "quanmian fugai"
          /\ \E i \in DOMAIN topic_list :
               /\ topic_list[i].name = GREEN_FINANCE
               /\ Resolved(topic_list[i]) = <<>>
               /\ details[i][2] = <<"zhengce fugai chengdu: ", "xu zengqiang", "; wei yingshe biaozhun">>

----------------------------------------------------------------------------
(* The reference slots of the topics the materiality step produces *)

\* the links of the two reference tables
SSE_LINKS == {guideline_link(SSE_GUIDELINES(SSE_KEYS[i])) : i \in DOMAIN SSE_KEYS}
GRI_LINKS == {guideline_link(GRI_STANDARDS(k)) : k \in {"GRI-2-9", "GRI-3-1", "GRI-305", "GRI-403", "GRI-413"}}

(* C21: for every topic the materiality step produces, sse_reference when   *)
(* set is a link into the SSE guide and gri_reference when set is a link to *)
(* a GRI standard; the two slots hold the first and the second match of the *)
(* keyword-to-guideline lookup on the topic's keywords.                     *)
C21_ReferenceSlots ==
    "materiality_matrix" \in DOMAIN ctx[1] =>
        LET topic_list == ctx[1]["materiality_matrix"].topics
            given == default_topics(Company(1).industry)
        IN /\ Len(topic_list) = Len(given)
           /\ \A i \in DOMAIN topic_list :
                LET topic == topic_list[i]
                    links == map_topics_to_guidelines(given[i].keywords)
                IN /\ ~IsNone(topic.sse_reference) => The(topic.sse_reference) \in SSE_LINKS
                   /\ ~IsNone(topic.gri_reference) => The(topic.gri_reference) \in GRI_LINKS
                   /\ topic.sse_reference = (IF Len(links) >= 1 THEN Some(links[1]) ELSE None)
                   /\ topic.gri_reference = (IF Len(links) >= 2 THEN Some(links[2]) ELSE None)

----------------------------------------------------------------------------
(* The package of one execute of the default pipeline *)

\* the agents whose last output holds a package
Creators == {k \in DOMAIN agents : ~IsNone(last_output[k]) /\ "report_package" \in DOMAIN The(last_output[k])}

(* C22: in one execute exactly one ESGReportPackage is created, by the      *)
(* closing report_compiler step and by no step before it; its company,      *)
(* stakeholder_map, materiality_matrix and process_documents are the values *)
(* the context holds under those keys when that step runs (no documents     *)
(* when the key is absent), and its company is the profile given to         *)
(* execute, unchanged.                                                      *)
C22_PackageCreatedOnce ==
    /\ Finished(1) =>
         /\ Occurrences(log[1], COMPILER) = 1
         /\ "report_package" \in DOMAIN ctx[1]
    /\ \A k \in Creators : k = Len(agents) /\ agents[k] = COMPILER
    /\ "report_package" \in DOMAIN ctx[1] =>
         LET package == ctx[1]["report_package"]
         IN /\ step[1] = Len(agents)
            /\ Creators = {Len(agents)}
            /\ package = The(last_output[Len(agents)])["report_package"]
            /\ package.company = ctx[1]["company"]
            /\ package.stakeholder_map = ctx[1]["stakeholder_map"]
            /\ package.materiality_matrix = ctx[1]["materiality_matrix"]
            /\ package.process_documents = DocumentsOf(ctx[1])
            /\ package.company = Company(1)

----------------------------------------------------------------------------
(* The stakeholder list of the stakeholder step *)

BaseCategories == <<TOUZIZHE, YUANGONG, KEHU, GONGYINGSHANG, JIANGUANJIGOU>>

\* the tier the static mapping gives a category
Tier(category) ==
    CASE category \in {TOUZIZHE, KEHU, YUANGONG, JIANGUANJIGOU} -> "High"
      [] category \in {GONGYINGSHANG, SHEQU} -> "Medium"
      [] OTHER -> "Low"

(* C23: whenever the stakeholder step has completed, stakeholder_map holds  *)
(* the five base categories in their fixed order, then the community        *)
(* category exactly when the industry contains "制造" or "工业" or the      *)
(* description contains "制造", then the industry-association category      *)
(* exactly when the industry contains "金融"; each entry's priority is the  *)
(* tier of its category, Low for a category the mapping does not name.      *)
C23_StakeholderList ==
    "stakeholder_map" \in DOMAIN ctx[1] =>
        LET stakeholder_map == ctx[1]["stakeholder_map"]
            industry == Company(1).industry
            description == Company(1).description
            community == \/ Contains(industry, ZhiZao)
                         \/ Contains(industry, GongYe)
                         \/ (~IsNone(description) /\ Contains(The(description), ZhiZao))
            association == Contains(industry, JinRong)
        IN /\ [i \in DOMAIN stakeholder_map |-> stakeholder_map[i].category]
                = BaseCategories \o (IF community THEN <<SHEQU>> ELSE <<>>)
                                 \o (IF association THEN <<HANGYEXIEHUI>> ELSE <<>>)
           /\ \A i \in DOMAIN stakeholder_map :
                /\ stakeholder_map[i].priority \in {"High", "Medium", "Low"}
                /\ stakeholder_map[i].priority = Tier(stakeholder_map[i].category)

C23_Witness ==
    /\ "stakeholder_map" \in DOMAIN ctx[1]
    /\ Company(1).industry = JinRong
    /\ Company(1).description = Some(ZhiZao)
    /\ Len(ctx[1]["stakeholder_map"]) = 7
    /\ ctx[1]["stakeholder_map"][6].category = SHEQU
    /\ ctx[1]["stakeholder_map"][6].priority = "Medium"
    /\ ctx[1]["stakeholder_map"][7].category = HANGYEXIEHUI
    /\ ctx[1]["stakeholder_map"][7].priority = "Low"

----------------------------------------------------------------------------
(* The materiality agent called by itself, on a context with or without a   *)
(* stakeholder_map                                                          *)

\* industries of up to MaxIndustryLen characters, and three that name two sectors
TopicIndustries == Industries \cup {JinRong \o ZhiZao, ZhiZao \o JinRong, JinRong \o GongYe}

\* a stakeholder the stakeholder agent never builds: "媒体" media
MEITI == "meiti"

TopicStakeholders ==
    {_build_entry([category |-> c, description |-> "miaoshu"]) : c \in {TOUZIZHE, MEITI}}

TopicContexts ==
    LET company(industry) == CompanyProfile("shili zhizao", industry, "zhongguo", None)
    IN {[key \in {"company"} |-> company(industry)] : industry \in TopicIndustries}
       \cup {[key \in {"company", "stakeholder_map"} |->
                IF key = "company" THEN company(industry) ELSE stakeholders] :
             industry \in TopicIndustries,
             stakeholders \in SeqsUpTo(TopicStakeholders, MaxStakeholders)}

NextTopics ==
    \/ \E context \in TopicContexts : MakeContext(context)
    \/ DirectCall(2)

SpecTopics == InitCall /\ [][NextTopics]_vars

BaseTopicNames ==
    <<"gongsi zhili yu hegui", "qihou bianhua yu tanpaifang guanli", "yuangong fazhan yu anquan",
      "fuzeren gongyinglian", "shequ gongjian yu shehui gongxian">>

(* C24: whenever the materiality step has completed, on a context with or   *)
(* without a stakeholder_map, the topics of the matrix are the five base    *)
(* topics in their fixed order, then the green-finance topic exactly when   *)
(* the industry contains "金融", then the clean-production topic exactly    *)
(* when the industry contains "制造" or "工业"; the list is never empty and *)
(* is the one built for the same company without any stakeholder_map.       *)
C24_TopicList ==
    (pc[1] = "called" /\ "materiality_matrix" \in DOMAIN ctx[1]) =>
        LET topic_list == ctx[1]["materiality_matrix"].topics
            industry == ctx[1]["company"].industry
            alone == MaterialityRun([key \in {"company"} |-> ctx[1]["company"]])
        IN /\ IsNone(error[1])
           /\ [i \in DOMAIN topic_list |-> topic_list[i].name]
                = BaseTopicNames
                    \o (IF Contains(industry, JinRong) THEN <<GREEN_FINANCE>> ELSE <<>>)
                    \o (IF Contains(industry, ZhiZao) \/ Contains(industry, GongYe)
                        THEN <<CLEAN_PRODUCTION>> ELSE <<>>)
           /\ topic_list # <<>>
           /\ ~alone.raised
           /\ ctx[1]["materiality_matrix"] = alone.output["materiality_matrix"]

C24_Witness ==
    /\ pc[1] = "called"
    /\ "materiality_matrix" \in DOMAIN ctx[1]
    /\ "stakeholder_map" \in DOMAIN ctx[1]
    /\ Categories(ctx[1]["stakeholder_map"]) = {TOUZIZHE, MEITI}
    /\ ctx[1]["company"].industry = ZhiZao \o JinRong
    /\ Len(ctx[1]["materiality_matrix"].topics) = 7
    /\ ctx[1]["materiality_matrix"].topics[6].name = GREEN_FINANCE
    /\ ctx[1]["materiality_matrix"].topics[7].name = CLEAN_PRODUCTION

----------------------------------------------------------------------------
(* The AI settings file under loads and saves of the settings form *)

\* one row of the form: its eight fields as typed
Row(name, model_name, temperature, timeout) ==
    [k \in {model_fields[i] : i \in DOMAIN model_fields} |->
        CASE k = "name" -> name
          [] k = "model_name" -> model_name
          [] k = "temperature" -> temperature
          [] k = "timeout" -> timeout
          [] OTHER -> ""]

\* a blank row, a row with no display name, a row that names A and a row
\* that names B with an unreadable temperature and a timeout
Rows == {Row("", "", "", ""), Row("  ", "gpt-4", "", ""), Row("A", "", "", ""),
         Row(" B ", "gpt-4", "abc", "30")}

SettingsForms == SeqsUpTo(Rows, MaxModels)

\* request.form.get("active_model"): absent, the second row, a row that is not there
SelectedIndexes == {None, Some("1"), Some("7")}

\* the file at the start: missing, empty, or holding an empty JSON object
InitSettings ==
    /\ WorkflowConstructed(None)
    /\ topics = <<>>
    /\ matrix = None
    /\ today = Date0
    /\ config_file \in {MISSING, Written(EMPTY_TEXT), Written(json_dumps(EmptyDict))}
    /\ settings_data = None
    /\ flashes = <<>>

\* index(), or settings() on a GET: load_ai_settings and render
LoadSettings ==
    /\ \E loaded \in {load_ai_settings(config_file)} :
         /\ settings_data' = Some(loaded.returned)
         /\ config_file' = loaded.file
    /\ UNCHANGED <<agents, last_output, args, ctx, pc, step, log, result, error, archive,
                   today, topics, matrix, trace, flashes>>

\* settings() on a POST
SaveSettings(form, selected_index) ==
    /\ \E loaded \in {load_ai_settings(config_file)},
          converted \in {_convert_to_configs(_extract_model_entries(form))} :
         LET configs == converted.configs
             errors == [i \in DOMAIN converted.errors |-> "danger"]
             active_model == NameAt(converted.index_to_name, selected_index)
             new_settings == AISettings(IF IsNone(active_model) \/ The(active_model) = ""
                                        THEN configs[1].name ELSE The(active_model), configs)
         IN /\ settings_data' = Some(loaded.returned)
            /\ IF configs = <<>>
               THEN /\ flashes' = Append(errors, "danger")
                    /\ config_file' = loaded.file
               ELSE /\ flashes' = Append(errors, "success")
                    /\ config_file' = save_ai_settings(new_settings)
    /\ UNCHANGED <<agents, last_output, args, ctx, pc, step, log, result, error, archive,
                   today, topics, matrix, trace>>

NextSettings ==
    \/ LoadSettings
    \/ \E form \in SettingsForms, selected_index \in SelectedIndexes : SaveSettings(form, selected_index)

SpecSettings == InitSettings /\ [][NextSettings]_vars

(* C25: after any sequence of load_ai_settings calls and saves of the       *)
(* settings form, from a settings file that is missing, empty or written by *)
(* an earlier save, the settings load_ai_settings returns have at least one *)
(* model, and their active_model is the name of one of their models.        *)
C25_LoadedSettingsUsable ==
    ~IsNone(settings_data) =>
        /\ Len(The(settings_data).models) >= 1
        /\ The(settings_data).active_model \in ModelNames(The(settings_data).models)

C25_Witness ==
    /\ ~IsNone(settings_data)
    /\ flashes = <<"danger", "success">>
    /\ Len(The(settings_data).models) = 2
    /\ The(settings_data).models[1].name = "B"
    /\ The(settings_data).models[1].timeout = Some(30)
    /\ The(settings_data).models[2].name = "A"
    /\ The(settings_data).models[2].model_name = "A"
    /\ The(settings_data).active_model = "A"

====
